---- MODULE Spec2Model ----
(***************************************************************************)
(* Enumeration of cubic planar graphs with one triangle, two squares, five *)
(* pentagons and arbitrarily many hexagons (planar.cc and planar-fast.cc). *)
(*                                                                         *)
(* The model keeps the source's 0-based indices: an edge index, a face     *)
(* index and an index into openfaces are the numbers the C++ code uses;    *)
(* At(s, i) reads element i of a vector.  Vertex ids are 1-based, as in    *)
(* the source.                                                             *)
(***************************************************************************)
EXTENDS Integers, Sequences, FiniteSets, TLC

VARIABLES prog,        \* which driver runs: "fast" (planar-fast.cc) or "planar" (planar.cc)
          MAX_FACES,   \* the compile-time bound -DMAX_FACES of this run
          G,           \* the live GraphState of main
          graphStack,  \* deque<GraphState> graphStack
          canonslns,   \* std::set<vector<int>> canonslns
          nsuccess,    \* the success tally (per hexagon count in planar-fast.cc)
          ncanon,      \* history: the number of calls of G.canongraph() so far
          canong,      \* static sparsegraph canong: what the oracle wrote last
          errstatus,   \* stats.errstatus of the last call of sparsenauty
          pop,         \* bool pop
          pc           \* position in main: "loop", "applied", "done", "aborted"

vars == <<prog, MAX_FACES, G, graphStack, canonslns, nsuccess, ncanon, canong, errstatus,
          pop, pc>>

(***************************************************************************)
(* Bounds of the model.                                                    *)
(***************************************************************************)
\* the least and the greatest value of MAX_FACES the drivers are run with
LeastBound == 3

MaxBound == 12

\* the number of states the deque graphStack holds before memory runs out:
\* more than a search that is cut at MAX_FACES - 4 ever stacks
MaxDepth == MaxBound

\* the oracle may report an error in the first FailCalls calls of a run
FailCalls == 1

(***************************************************************************)
(* Program constants.                                                      *)
(***************************************************************************)
N_TRI == 1
N_SQ == 2
N_PENT == 5
NUM_METH == 10

(***************************************************************************)
(* std::vector / std::deque operations, on 0-based positions.              *)
(***************************************************************************)
At(s, i) == s[i + 1]

Back(s) == s[Len(s)]

PushFront(s, x) == <<x>> \o s

\* vector::erase(begin() + first, begin() + last): removes [first, last)
EraseRange(s, first, last) == SubSeq(s, 1, first) \o SubSeq(s, last + 1, Len(s))

\* vector::erase(begin() + i)
EraseAt(s, i) == EraseRange(s, i, i + 1)

\* vector::insert(begin() + i, x)
InsertAt(s, i, x) == SubSeq(s, 1, i) \o <<x>> \o SubSeq(s, i + 1, Len(s))

(***************************************************************************)
(* struct edge: <<v1, v2>>.                                                *)
(***************************************************************************)
V1(e) == e[1]
V2(e) == e[2]

(***************************************************************************)
(* struct faceCounter and faceCounter::add.  Add returns the updated       *)
(* counter together with the boolean the C++ method returns.               *)
(***************************************************************************)
faceCounter(t, s, p) == [ntri |-> t, nsq |-> s, npent |-> p, ok |-> TRUE]

\* an add that counts the face but never reports a budget as exceeded
FcAddUnchecked(fc, size) ==
  CASE size = 3 -> [fc EXCEPT !.ntri = @ + 1]
    [] size = 4 -> [fc EXCEPT !.nsq = @ + 1]
    [] size = 5 -> [fc EXCEPT !.npent = @ + 1]
    [] size = 6 -> fc
    [] OTHER -> [fc EXCEPT !.ok = FALSE]

FcAdd(fc, size) ==
  CASE size = 3 -> [fc EXCEPT !.ntri = @ + 1, !.ok = (fc.ntri + 1 <= N_TRI)]
    [] size = 4 -> [fc EXCEPT !.nsq = @ + 1, !.ok = (fc.nsq + 1 <= N_SQ)]
    [] size = 5 -> [fc EXCEPT !.npent = @ + 1, !.ok = (fc.npent + 1 <= N_PENT)]
    [] size = 6 -> [fc EXCEPT !.ok = TRUE]
    [] OTHER -> [fc EXCEPT !.ok = FALSE]

\* a seed whose last boundary edge {7,1} was left out of the initialiser lists
SeedNoLastEdge ==
  [numverts |-> 7, nsq |-> 0, npent |-> 0, nhex |-> 1,
   edges |-> << <<1,2>>, <<2,3>>, <<1,3>>, <<3,4>>, <<4,5>>, <<5,6>>, <<6,7>> >>,
   faces |-> << <<0,1,2>>, <<2,3,4,5,6>>, <<0>>, <<1,3>>, <<4>>, <<5>>, <<6>> >>,
   openfaces |-> <<2,3,4,5,6>>,
   medgadd |-> 0, chosenFace |-> 0]

(***************************************************************************)
(* GraphState::GraphState(): the seed.                                     *)
(***************************************************************************)
Seed ==
  [numverts |-> 7, nsq |-> 0, npent |-> 0, nhex |-> 1,
   edges |-> << <<1,2>>, <<2,3>>, <<1,3>>, <<3,4>>, <<4,5>>, <<5,6>>, <<6,7>>, <<7,1>> >>,
   faces |-> << <<0,1,2>>, <<2,3,4,5,6,7>>, <<7,0>>, <<1,3>>, <<4>>, <<5>>, <<6>> >>,
   openfaces |-> <<2,3,4,5,6>>,
   medgadd |-> 0, chosenFace |-> 0]

(***************************************************************************)
(* Elementary edits of a GraphState used by addEdges.                      *)
(***************************************************************************)
\* an emplace_back that stores the first endpoint twice
EmplaceLoop(g, a, b) == [g EXCEPT !.edges = Append(@, <<a, a>>)]

\* a push_front that appends at the back, losing the face's orientation
PushFrontAtBack(g, f, e) == [g EXCEPT !.faces[f + 1] = Append(@, e)]

\* an emplace_back that stores the edge twice
EmplaceTwice(g, a, b) == [g EXCEPT !.edges = Append(Append(@, <<a, b>>), <<a, b>>)]

\* an insertion of the new edge at the front of edges, which moves every
\* edge to the next index
EmplaceFront(g, a, b) == [g EXCEPT !.edges = <<<<a, b>>>> \o @]

\* an emplace_back that stores the endpoints in the other order
EmplaceReversed(g, a, b) == [g EXCEPT !.edges = Append(@, <<b, a>>)]

\* an emplace_back that joins the first endpoint to vertex 1
EmplaceToFirst(g, a, b) == [g EXCEPT !.edges = Append(@, <<a, 1>>)]

\* edges.emplace_back(a, b)
EmplaceEdge(g, a, b) == [g EXCEPT !.edges = Append(@, <<a, b>>)]

\* an increment that skips a vertex id
IncNumvertsTwice(g) == [g EXCEPT !.numverts = @ + 2]

\* ++numverts
IncNumverts(g) == [g EXCEPT !.numverts = @ + 1]

\* a push_back that appends the edge twice
FacePushBackTwice(g, f, e) == [g EXCEPT !.faces[f + 1] = Append(Append(@, e), e)]

\* faces[f].push_back(e)
FacePushBack(g, f, e) == [g EXCEPT !.faces[f + 1] = Append(@, e)]

\* faces[f].push_front(e)
FacePushFront(g, f, e) == [g EXCEPT !.faces[f + 1] = PushFront(@, e)]

\* faces[f].insert(faces[f].end(), faces[h].begin(), faces[h].end())
FaceAbsorb(g, f, h) == [g EXCEPT !.faces[f + 1] = @ \o g.faces[h + 1]]

\* faces.emplace_back(1, e): a new face holding the single edge e
NewFace(g, e) == [g EXCEPT !.faces = Append(@, <<e>>)]

\* openfaces[i] = f
SetOpen(g, i, f) == [g EXCEPT !.openfaces[i + 1] = f]

\* a countFace that leaves the pentagons out
countFaceNoPent(g, f) ==
  LET size == Len(At(g.faces, f)) IN
  CASE size = 4 -> [g EXCEPT !.nsq = @ + 1]
    [] size = 6 -> [g EXCEPT !.nhex = @ + 1]
    [] OTHER -> g

\* a countFace that leaves the hexagons out
countFaceNoHex(g, f) ==
  LET size == Len(At(g.faces, f)) IN
  CASE size = 4 -> [g EXCEPT !.nsq = @ + 1]
    [] size = 5 -> [g EXCEPT !.npent = @ + 1]
    [] OTHER -> g

\* GraphState::countFace
countFace(g, f) ==
  LET size == Len(At(g.faces, f)) IN
  CASE size = 4 -> [g EXCEPT !.nsq = @ + 1]
    [] size = 5 -> [g EXCEPT !.npent = @ + 1]
    [] size = 6 -> [g EXCEPT !.nhex = @ + 1]
    [] OTHER -> g

\* start and end vertex of open face f (startF / endptF of addEdges;
\* startpt / endpt of planar.cc)
startpt(g, f) == V1(At(g.edges, At(g.faces, f)[1]))

endpt(g, f) == V2(At(g.edges, Back(At(g.faces, f))))

(***************************************************************************)
(* The neighbourhood of the open face at position oF of openfaces: the     *)
(* positions and face indices that isValid and addEdges compute first.     *)
(***************************************************************************)
Nbhd(g, oF) ==
  LET n == Len(g.openfaces)
      pppoF == (oF + 2*n - 3) % n
      ppoF == (oF + n - 2) % n
      poF == (oF + n - 1) % n
      noF == (oF + 1) % n
      nnoF == (oF + 2) % n
      nnnoF == (oF + 3) % n
  IN [n |-> n, oF |-> oF,
      pppoF |-> pppoF, ppoF |-> ppoF, poF |-> poF,
      noF |-> noF, nnoF |-> nnoF, nnnoF |-> nnnoF,
      pppF |-> At(g.openfaces, pppoF), ppF |-> At(g.openfaces, ppoF),
      pF |-> At(g.openfaces, poF), fF |-> At(g.openfaces, oF),
      nF |-> At(g.openfaces, noF), nnF |-> At(g.openfaces, nnoF),
      nnnF |-> At(g.openfaces, nnnoF)]

\* the sizes of the seven faces isValid binds references to
Sizes(g, oF) ==
  LET nb == Nbhd(g, oF)
      size(f) == Len(At(g.faces, f))
  IN [n |-> nb.n,
      pppF |-> size(nb.pppF), prprF |-> size(nb.ppF), prevF |-> size(nb.pF),
      F |-> size(nb.fF),
      nextF |-> size(nb.nF), nnF |-> size(nb.nnF), nnnF |-> size(nb.nnnF)]

(***************************************************************************)
(* GraphState::isValid, one operator per case of the switch.  L holds the  *)
(* face sizes, facect the tentative counter {1, nsq, npent}.               *)
(***************************************************************************)
\* case 1 without the count of the successor, which the move closes together
\* with the selected face when only two faces are open
Valid1NoClosingCount(L, facect) ==
  IF L.n > 2 /\ L.prevF + L.nextF > 4 THEN FALSE
  ELSE FcAdd(facect, L.F + 1).ok

Valid1(L, facect) ==
  IF L.n > 2 /\ L.prevF + L.nextF > 4 THEN FALSE
  ELSE LET fc1 == IF L.n = 2 THEN FcAdd(facect, L.nextF + 1) ELSE facect IN
       IF L.n = 2 /\ ~fc1.ok THEN FALSE
       ELSE FcAdd(fc1, L.F + 1).ok

Valid2(L, facect) ==
  IF L.prevF > 4 THEN FALSE
  ELSE IF L.nextF > 4 THEN FALSE
  ELSE FcAdd(facect, L.F + 2).ok

\* cases 3 and 6 without the test of the number of open faces
Valid36AnyN(L, facect, nnsize, added) ==
  IF L.nnF # nnsize THEN FALSE
  ELSE LET fc1 == FcAdd(facect, L.nextF + 1) IN
       IF ~fc1.ok THEN FALSE
       ELSE IF L.n > 4 /\ L.prevF + L.nnnF > 4 THEN FALSE
       ELSE LET fc2 == IF L.n = 4 THEN FcAdd(fc1, L.prevF + 1) ELSE fc1 IN
            IF L.n = 4 /\ ~fc2.ok THEN FALSE
            ELSE FcAdd(fc2, L.F + added).ok

\* cases 3 and 6 differ in the required size of nnF and in the edges added
Valid36(L, facect, nnsize, added) ==
  IF L.n < 4 \/ L.n = 5 THEN FALSE
  ELSE IF L.nnF # nnsize THEN FALSE
  ELSE LET fc1 == FcAdd(facect, L.nextF + 1) IN
       IF ~fc1.ok THEN FALSE
       ELSE IF L.n > 4 /\ L.prevF + L.nnnF > 4 THEN FALSE
       ELSE LET fc2 == IF L.n = 4 THEN FcAdd(fc1, L.prevF + 1) ELSE fc1 IN
            IF L.n = 4 /\ ~fc2.ok THEN FALSE
            ELSE FcAdd(fc2, L.F + added).ok

Valid3(L, facect) == Valid36(L, facect, 1, 3)

Valid6(L, facect) == Valid36(L, facect, 2, 4)

\* cases 4 and 7 with the size test on the second successor, as in cases 3
\* and 6, in place of the second predecessor
Valid47Forward(L, facect, ppsize, added) ==
  IF L.n < 6 THEN FALSE
  ELSE IF L.nnF # ppsize THEN FALSE
  ELSE LET fc1 == FcAdd(facect, L.prevF + 1) IN
       IF ~fc1.ok THEN FALSE
       ELSE IF L.n > 4 /\ L.pppF + L.nextF > 4 THEN FALSE
       ELSE LET fc2 == IF L.n = 4 THEN FcAdd(fc1, L.nextF + 1) ELSE fc1 IN
            IF L.n = 4 /\ ~fc2.ok THEN FALSE
            ELSE FcAdd(fc2, L.F + added).ok

\* cases 4 and 7
Valid47(L, facect, ppsize, added) ==
  IF L.n < 6 THEN FALSE
  ELSE IF L.prprF # ppsize THEN FALSE
  ELSE LET fc1 == FcAdd(facect, L.prevF + 1) IN
       IF ~fc1.ok THEN FALSE
       ELSE IF L.n > 4 /\ L.pppF + L.nextF > 4 THEN FALSE
       ELSE LET fc2 == IF L.n = 4 THEN FcAdd(fc1, L.nextF + 1) ELSE fc1 IN
            IF L.n = 4 /\ ~fc2.ok THEN FALSE
            ELSE FcAdd(fc2, L.F + added).ok

Valid4(L, facect) == Valid47(L, facect, 1, 3)

Valid7(L, facect) == Valid47(L, facect, 2, 4)

Valid5(L, facect) ==
  IF L.prevF > 4 THEN FALSE
  ELSE IF L.nextF > 4 THEN FALSE
  ELSE FcAdd(facect, L.F + 3).ok

Valid8(L, facect) ==
  IF L.n < 5 THEN FALSE
  ELSE IF L.nnF # 1 THEN FALSE
  ELSE IF L.prevF > 4 THEN FALSE
  ELSE IF L.nnnF > 4 THEN FALSE
  ELSE LET fc1 == FcAdd(facect, L.nextF + 1) IN
       IF ~fc1.ok THEN FALSE
       ELSE FcAdd(fc1, L.F + 4).ok

Valid9(L, facect) ==
  IF L.n < 5 THEN FALSE
  ELSE IF L.prprF # 1 THEN FALSE
  ELSE IF L.nextF > 4 THEN FALSE
  ELSE IF L.pppF > 4 THEN FALSE
  ELSE LET fc1 == FcAdd(facect, L.prevF + 1) IN
       IF ~fc1.ok THEN FALSE
       ELSE FcAdd(fc1, L.F + 4).ok

Valid10(L, facect) ==
  IF L.prevF > 4 THEN FALSE
  ELSE IF L.nextF > 4 THEN FALSE
  ELSE FcAdd(facect, L.F + 4).ok

isValid(g, oF, meth) ==
  \E L \in {Sizes(g, oF)}, facect \in {faceCounter(1, g.nsq, g.npent)} :
     CASE meth = 1 -> Valid1(L, facect)
       [] meth = 2 -> Valid2(L, facect)
       [] meth = 3 -> Valid3(L, facect)
       [] meth = 4 -> Valid4(L, facect)
       [] meth = 5 -> Valid5(L, facect)
       [] meth = 6 -> Valid6(L, facect)
       [] meth = 7 -> Valid7(L, facect)
       [] meth = 8 -> Valid8(L, facect)
       [] meth = 9 -> Valid9(L, facect)
       [] meth = 10 -> Valid10(L, facect)
       [] OTHER -> FALSE

\* an incMethod that starts over from id 1 whatever the cursor holds
incMethodRestart(g, medgadd) ==
  LET legal == {m \in 1..NUM_METH : isValid(g, g.chosenFace, m)} IN
  IF legal = {} THEN [medgadd |-> NUM_METH + 1, found |-> FALSE]
  ELSE [medgadd |-> CHOOSE m \in legal : \A k \in legal : m <= k, found |-> TRUE]

\* the sizes isValid passes to facect.add, in order, on the path of case
\* meth that returns true
Offered(L, meth) ==
  CASE meth = 1 -> (IF L.n = 2 THEN <<L.nextF + 1>> ELSE <<>>) \o <<L.F + 1>>
    [] meth = 2 -> <<L.F + 2>>
    [] meth \in {3, 6} ->
         <<L.nextF + 1>> \o (IF L.n = 4 THEN <<L.prevF + 1>> ELSE <<>>)
           \o <<L.F + (IF meth = 3 THEN 3 ELSE 4)>>
    [] meth \in {4, 7} ->
         <<L.prevF + 1>> \o (IF L.n = 4 THEN <<L.nextF + 1>> ELSE <<>>)
           \o <<L.F + (IF meth = 4 THEN 3 ELSE 4)>>
    [] meth = 5 -> <<L.F + 3>>
    [] meth = 8 -> <<L.nextF + 1, L.F + 4>>
    [] meth = 9 -> <<L.prevF + 1, L.F + 4>>
    [] meth = 10 -> <<L.F + 4>>
    [] OTHER -> <<>>

\* an incMethod that takes the next id without asking isValid
incMethodUnchecked(g, medgadd) ==
  IF medgadd < NUM_METH
  THEN [medgadd |-> medgadd + 1, found |-> TRUE]
  ELSE [medgadd |-> NUM_METH + 1, found |-> FALSE]

\* GraphState::incMethod on a state whose cursor is medgadd: the cursor
\* it leaves and the value it returns
RECURSIVE incMethodFrom(_, _)
incMethodFrom(g, medgadd) ==
  IF medgadd <= NUM_METH
  THEN IF isValid(g, g.chosenFace, medgadd + 1)
       THEN [medgadd |-> medgadd + 1, found |-> TRUE]
       ELSE incMethodFrom(g, medgadd + 1)
  ELSE [medgadd |-> medgadd, found |-> FALSE]

incMethod(g) == incMethodFrom(g, g.medgadd)

(***************************************************************************)
(* GraphState::addEdges, one operator per case of the switch.  Each takes  *)
(* the state on entry, the neighbourhood nb and startF / endptF, and gives *)
(* the state after the case.  The steps g1, g2, ... are the statements of  *)
(* the case in order.  Three values are named from the state on entry:     *)
(* e1 = edges.size() is the index of the first edge the move adds (so      *)
(* "edges.size() - 1" after the k-th emplace_back is e1 + k - 1), nv =     *)
(* numverts (so the k-th "++numverts" gives nv + k) and nf = faces.size()  *)
(* (the index of the first face the move appends).                         *)
(***************************************************************************)
\* case 1 without the count of the predecessor that closes with the boundary
Move1NoCount(g, nb, startF, endptF) ==
  LET e1 == Len(g.edges)
      g1 == EmplaceEdge(g, startF, endptF)
      g2 == FacePushBack(g1, nb.fF, e1)
      g3 == FacePushBack(g2, nb.pF, e1)
      g4 == [g3 EXCEPT !.openfaces =
               IF nb.noF > nb.oF
               THEN EraseRange(@, nb.oF, nb.oF + 2)
               ELSE EraseAt(EraseAt(@, nb.oF), nb.noF)]
  IN IF nb.n = 2
     THEN g4
     ELSE FaceAbsorb(g4, nb.pF, nb.nF)

Move1(g, nb, startF, endptF) ==
  LET e1 == Len(g.edges)
      g1 == EmplaceEdge(g, startF, endptF)
      g2 == FacePushBack(g1, nb.fF, e1)
      g3 == FacePushBack(g2, nb.pF, e1)
      g4 == [g3 EXCEPT !.openfaces =
               IF nb.noF > nb.oF
               THEN EraseRange(@, nb.oF, nb.oF + 2)
               ELSE EraseAt(EraseAt(@, nb.oF), nb.noF)]
  IN IF nb.n = 2
     THEN countFace(g4, nb.pF)
     ELSE FaceAbsorb(g4, nb.pF, nb.nF)

Move2(g, nb, startF, endptF) ==
  LET e1 == Len(g.edges)
      nv == g.numverts
      g1 == EmplaceEdge(IncNumverts(g), startF, nv + 1)
      g2 == FacePushBack(g1, nb.pF, e1)
      g3 == EmplaceEdge(g2, nv + 1, endptF)
      g4 == FacePushBack(g3, nb.fF, e1 + 1)
      g5 == FacePushBack(g4, nb.fF, e1)
      g6 == FacePushFront(g5, nb.nF, e1 + 1)
  IN [g6 EXCEPT !.openfaces = EraseAt(@, nb.oF)]

\* cases 3 and 6 with an erase that takes the four entries from oF on and
\* stops at the end of the vector
Move36NoWrap(g, nb, startF, endptF) ==
  LET e1 == Len(g.edges)
      g1 == EmplaceEdge(g, endptF, endpt(g, nb.nF))
      g2 == FacePushBack(g1, nb.fF, e1)
      g3 == FacePushBack(g2, nb.nF, e1)
      g4 == countFace(g3, nb.nF)
      g5 == FaceAbsorb(g4, nb.fF, nb.nnF)
      g6 == EmplaceEdge(g5, startF, endpt(g5, nb.nnF))
      g7 == FacePushBack(g6, nb.fF, e1 + 1)
      g8 == FacePushBack(g7, nb.pF, e1 + 1)
      g9 == [g8 EXCEPT !.openfaces =
               SubSeq(@, 1, nb.oF) \o SubSeq(@, nb.oF + 5, Len(@))]
  IN IF nb.n = 4
     THEN countFace(g9, nb.pF)
     ELSE FaceAbsorb(g9, nb.pF, nb.nnnF)

\* cases 3 and 6 (case 3 falls through to case 6)
Move36(g, nb, startF, endptF) ==
  LET e1 == Len(g.edges)
      g1 == EmplaceEdge(g, endptF, endpt(g, nb.nF))
      g2 == FacePushBack(g1, nb.fF, e1)
      g3 == FacePushBack(g2, nb.nF, e1)
      g4 == countFace(g3, nb.nF)
      g5 == FaceAbsorb(g4, nb.fF, nb.nnF)
      g6 == EmplaceEdge(g5, startF, endpt(g5, nb.nnF))
      g7 == FacePushBack(g6, nb.fF, e1 + 1)
      g8 == FacePushBack(g7, nb.pF, e1 + 1)
      g9 == [g8 EXCEPT !.openfaces =
               IF nb.nnnoF > nb.oF
               THEN EraseRange(@, nb.oF, nb.oF + 4)
               ELSE IF nb.nnoF > nb.oF
               THEN EraseAt(EraseRange(@, nb.oF, nb.oF + 3), nb.nnnoF)
               ELSE IF nb.noF > nb.oF
               THEN EraseRange(EraseRange(@, nb.oF, nb.oF + 2), nb.nnoF, nb.nnoF + 2)
               ELSE EraseRange(EraseAt(@, nb.oF), nb.noF, nb.noF + 3)]
  IN IF nb.n = 4
     THEN countFace(g9, nb.pF)
     ELSE FaceAbsorb(g9, nb.pF, nb.nnnF)

\* cases 4 and 7 (case 4 falls through to case 7)
Move47(g, nb, startF, endptF) ==
  LET e1 == Len(g.edges)
      g1 == EmplaceEdge(g, startpt(g, nb.pF), startF)
      g2 == FacePushBack(g1, nb.fF, e1)
      g3 == FacePushBack(g2, nb.pF, e1)
      g4 == countFace(g3, nb.pF)
      g5 == FaceAbsorb(g4, nb.fF, nb.ppF)
      g6 == EmplaceEdge(g5, startpt(g5, nb.ppF), endptF)
      g7 == FacePushBack(g6, nb.fF, e1 + 1)
      g8 == FacePushBack(g7, nb.pppF, e1 + 1)
      g9 == [g8 EXCEPT !.openfaces =
               IF nb.ppoF < nb.noF
               THEN EraseRange(@, nb.ppoF, nb.noF + 1)
               ELSE IF nb.poF < nb.noF
               THEN EraseRange(EraseAt(@, nb.ppoF), nb.poF, nb.noF + 1)
               ELSE IF nb.oF < nb.noF
               THEN EraseRange(EraseRange(@, nb.ppoF, nb.poF + 1), nb.oF, nb.noF + 1)
               ELSE EraseAt(EraseRange(@, nb.ppoF, nb.oF + 1), nb.noF)]
  IN IF nb.n = 4
     THEN countFace(g9, nb.nF)
     ELSE FaceAbsorb(g9, nb.pppF, nb.nF)

Move5(g, nb, startF, endptF) ==
  LET e1 == Len(g.edges)
      nv == g.numverts
      nf == Len(g.faces)
      g1 == EmplaceEdge(IncNumverts(g), startF, nv + 1)
      g2 == FacePushBack(g1, nb.pF, e1)
      g3 == EmplaceEdge(IncNumverts(g2), nv + 1, nv + 2)
      g4 == NewFace(g3, e1 + 1)
      g5 == SetOpen(g4, nb.oF, nf)
      g6 == EmplaceEdge(g5, nv + 2, endptF)
      g7 == FacePushBack(g6, nb.fF, e1 + 2)
      g8 == FacePushBack(g7, nb.fF, e1 + 1)
      g9 == FacePushBack(g8, nb.fF, e1)
  IN FacePushFront(g9, nb.nF, e1 + 2)

Move8(g, nb, startF, endptF) ==
  LET e1 == Len(g.edges)
      nv == g.numverts
      g1 == EmplaceEdge(g, endptF, endpt(g, nb.nF))
      g2 == FacePushBack(g1, nb.fF, e1)
      g3 == FacePushBack(g2, nb.nF, e1)
      g4 == FacePushBack(g3, nb.fF, At(g.faces, nb.nnF)[1])
      g5 == EmplaceEdge(IncNumverts(g4), nv + 1, endpt(g, nb.nnF))
      g6 == FacePushBack(g5, nb.fF, e1 + 1)
      g7 == FacePushFront(g6, nb.nnnF, e1 + 1)
      g8 == EmplaceEdge(g7, startF, nv + 1)
      g9 == FacePushBack(g8, nb.fF, e1 + 2)
      g10 == FacePushBack(g9, nb.pF, e1 + 2)
      g11 == [g10 EXCEPT !.openfaces =
                IF nb.nnoF > nb.oF
                THEN EraseRange(@, nb.oF, nb.oF + 3)
                ELSE IF nb.noF > nb.oF
                THEN EraseAt(EraseRange(@, nb.oF, nb.oF + 2), nb.nnoF)
                ELSE EraseRange(EraseAt(@, nb.oF), nb.noF, nb.noF + 2)]
  IN countFace(g11, nb.nF)

Move9(g, nb, startF, endptF) ==
  LET e1 == Len(g.edges)
      nv == g.numverts
      g1 == EmplaceEdge(g, startpt(g, nb.pF), startF)
      g2 == FacePushBack(g1, nb.fF, e1)
      g3 == FacePushBack(g2, nb.pF, e1)
      g4 == FacePushBack(g3, nb.fF, At(g.faces, nb.ppF)[1])
      g5 == EmplaceEdge(IncNumverts(g4), startpt(g, nb.ppF), nv + 1)
      g6 == FacePushBack(g5, nb.fF, e1 + 1)
      g7 == FacePushBack(g6, nb.pppF, e1 + 1)
      g8 == EmplaceEdge(g7, nv + 1, endptF)
      g9 == FacePushBack(g8, nb.fF, e1 + 2)
      g10 == FacePushFront(g9, nb.nF, e1 + 2)
      g11 == [g10 EXCEPT !.openfaces =
                IF nb.ppoF < nb.oF
                THEN EraseRange(@, nb.ppoF, nb.oF + 1)
                ELSE IF nb.poF < nb.oF
                THEN EraseRange(EraseAt(@, nb.ppoF), nb.poF, nb.oF + 1)
                ELSE EraseAt(EraseRange(@, nb.ppoF, nb.poF + 1), nb.oF)]
  IN countFace(g11, nb.pF)

Move10(g, nb, startF, endptF) ==
  LET e1 == Len(g.edges)
      nv == g.numverts
      nf == Len(g.faces)
      g1 == EmplaceEdge(IncNumverts(g), startF, nv + 1)
      g2 == FacePushBack(g1, nb.fF, e1)
      g3 == FacePushBack(g2, nb.pF, e1)
      g4 == EmplaceEdge(IncNumverts(g3), nv + 1, nv + 2)
      g5 == FacePushBack(g4, nb.fF, e1 + 1)
      g6 == NewFace(g5, e1 + 1)
      g7 == [g6 EXCEPT !.openfaces = InsertAt(@, nb.oF, nf)]
      g8 == EmplaceEdge(IncNumverts(g7), nv + 2, nv + 3)
      g9 == FacePushBack(g8, nb.fF, e1 + 2)
      g10 == NewFace(g9, e1 + 2)
      g11 == SetOpen(g10, nb.oF + 1, nf + 1)
      g12 == EmplaceEdge(g11, nv + 3, endptF)
      g13 == FacePushBack(g12, nb.fF, e1 + 3)
  IN FacePushFront(g13, nb.nF, e1 + 3)

\* toerase left in the order of the push_back calls
Unsorted(s) == s

\* the vector toerase at the end of the switch, already in the descending
\* order of std::sort(toerase.rbegin(), toerase.rend())
SortDesc(s) ==
  IF Len(s) = 2 /\ s[1] < s[2] THEN <<s[2], s[1]>> ELSE s

toerase(nb, meth) ==
  SortDesc(CASE meth = 1 -> IF nb.n = 2 THEN <<>> ELSE <<nb.nF>>
             [] meth \in {3, 6} -> IF nb.n = 4 THEN <<nb.nnF>> ELSE <<nb.nnF, nb.nnnF>>
             [] meth \in {4, 7} -> IF nb.n = 4 THEN <<nb.ppF>> ELSE <<nb.ppF, nb.nF>>
             [] meth = 8 -> <<nb.nnF>>
             [] meth = 9 -> <<nb.ppF>>
             [] OTHER -> <<>>)

\* a round of the closing loop that removes faces[ef] and leaves the entries
\* of openfaces as they are
EraseFaceNoRenumber(g, ef) == [g EXCEPT !.faces = EraseAt(@, ef)]

\* a round of the closing loop that removes the slot before faces[ef]
EraseFaceBefore(g, ef) ==
  [g EXCEPT !.openfaces = [i \in DOMAIN @ |-> IF @[i] > ef - 1 THEN @[i] - 1 ELSE @[i]],
            !.faces = EraseAt(@, ef - 1)]

\* one round of the closing loop of addEdges: the entries of openfaces
\* above ef are renumbered and faces[ef] is removed
EraseFace(g, ef) ==
  [g EXCEPT !.openfaces = [i \in DOMAIN @ |-> IF @[i] > ef THEN @[i] - 1 ELSE @[i]],
            !.faces = EraseAt(@, ef)]

\* a closing loop that removes no face
EraseNone(g, te) == g

\* the closing loop of addEdges over toerase (at most two faces)
EraseFaces(g, te) ==
  IF Len(te) = 0 THEN g
  ELSE IF Len(te) = 1 THEN EraseFace(g, te[1])
  ELSE EraseFace(EraseFace(g, te[1]), te[2])

\* addEdges up to its closing loop: the switch and countFace(faces[fF])
BeforeErase(g, oF, meth) ==
  LET nb == Nbhd(g, oF)
      startF == startpt(g, nb.fF)
      endptF == endpt(g, nb.fF)
      g1 == CASE meth = 1 -> Move1(g, nb, startF, endptF)
              [] meth = 2 -> Move2(g, nb, startF, endptF)
              [] meth \in {3, 6} -> Move36(g, nb, startF, endptF)
              [] meth \in {4, 7} -> Move47(g, nb, startF, endptF)
              [] meth = 5 -> Move5(g, nb, startF, endptF)
              [] meth = 8 -> Move8(g, nb, startF, endptF)
              [] meth = 9 -> Move9(g, nb, startF, endptF)
              [] meth = 10 -> Move10(g, nb, startF, endptF)
              [] OTHER -> g
  IN countFace(g1, nb.fF)

addEdges(g, oF, meth) == EraseFaces(BeforeErase(g, oF, meth), toerase(Nbhd(g, oF), meth))

\* a scan that lets a later face of equal length replace the chosen one
RECURSIVE chooseFromLast(_, _, _)
chooseFromLast(g, i, chosen) ==
  IF i >= Len(g.openfaces) THEN chosen
  ELSE chooseFromLast(g, i + 1,
         IF Len(At(g.faces, At(g.openfaces, i))) >= Len(At(g.faces, At(g.openfaces, chosen)))
         THEN i ELSE chosen)

\* GraphState::chooseFace
RECURSIVE chooseFrom(_, _, _)
chooseFrom(g, i, chosen) ==
  IF i >= Len(g.openfaces) THEN chosen
  ELSE chooseFrom(g, i + 1,
         IF Len(At(g.faces, At(g.openfaces, i))) > Len(At(g.faces, At(g.openfaces, chosen)))
         THEN i ELSE chosen)

chooseFace(g) == [g EXCEPT !.chosenFace = chooseFrom(g, 1, 0), !.medgadd = 0]

\* facesoflen[k] after the first loop of sizecheck / sizefinal
FacesOfLen(g, k) == Cardinality({f \in DOMAIN g.faces : Len(g.faces[f]) = k})

\* facesoflen[k] after the second loop of sizecheck: the open faces of
\* length k are taken out again
ClosedOfLen(g, k) ==
  FacesOfLen(g, k) - Cardinality({o \in DOMAIN g.openfaces : Len(At(g.faces, g.openfaces[o])) = k})

\* a sizecheck without the test of the lengths of the open faces
sizecheckNoOpenTest(g) ==
  IF \E f \in DOMAIN g.faces : Len(g.faces[f]) > 6 THEN FALSE
  ELSE IF ClosedOfLen(g, 0) # 0 \/ ClosedOfLen(g, 1) # 0 \/ ClosedOfLen(g, 2) # 0 THEN FALSE
  ELSE /\ ClosedOfLen(g, 3) <= N_TRI
       /\ ClosedOfLen(g, 4) <= N_SQ
       /\ ClosedOfLen(g, 5) <= N_PENT

\* GraphState::sizecheck
sizecheck(g) ==
  IF \E f \in DOMAIN g.faces : Len(g.faces[f]) > 6 THEN FALSE
  ELSE IF \E o \in DOMAIN g.openfaces : Len(At(g.faces, g.openfaces[o])) > 5 THEN FALSE
  ELSE IF ClosedOfLen(g, 0) # 0 \/ ClosedOfLen(g, 1) # 0 \/ ClosedOfLen(g, 2) # 0 THEN FALSE
  ELSE /\ ClosedOfLen(g, 3) <= N_TRI
       /\ ClosedOfLen(g, 4) <= N_SQ
       /\ ClosedOfLen(g, 5) <= N_PENT

\* GraphState::sizefinal of planar-fast.cc
sizefinalFast(g) ==
  IF \E f \in DOMAIN g.faces : Len(g.faces[f]) < 3 \/ Len(g.faces[f]) > 6 THEN FALSE
  ELSE /\ FacesOfLen(g, 3) = N_TRI
       /\ FacesOfLen(g, 4) = N_SQ
       /\ FacesOfLen(g, 5) = N_PENT

\* vertdegs[v] of sizefinal (planar.cc); also d[v-1] of canongraph
Degree(g, v) ==
  Cardinality({i \in DOMAIN g.edges : V1(g.edges[i]) = v})
    + Cardinality({i \in DOMAIN g.edges : V2(g.edges[i]) = v})

\* a sizefinal of planar.cc without the test of the degrees
sizefinalNoDegrees(g) ==
  IF \E f \in DOMAIN g.faces : Len(g.faces[f]) < 3 \/ Len(g.faces[f]) > 6 THEN FALSE
  ELSE /\ FacesOfLen(g, 3) = N_TRI
       /\ FacesOfLen(g, 4) = N_SQ
       /\ FacesOfLen(g, 5) = N_PENT

\* GraphState::sizefinal of planar.cc (its assertion is CountersAssert)
sizefinalPlanar(g) ==
  IF \E f \in DOMAIN g.faces : Len(g.faces[f]) < 3 \/ Len(g.faces[f]) > 6 THEN FALSE
  ELSE IF \E v \in 1..g.numverts : Degree(g, v) # 3 THEN FALSE
  ELSE /\ FacesOfLen(g, 3) = N_TRI
       /\ FacesOfLen(g, 4) = N_SQ
       /\ FacesOfLen(g, 5) = N_PENT

(***************************************************************************)
(* The assertions of planar.cc.  Each operator is TRUE when none of the    *)
(* assert() calls met on that path fails.                                  *)
(***************************************************************************)
\* assert(F.size() > 1) of isValid
IsValidAssert(g) == Len(At(g.faces, At(g.openfaces, g.chosenFace))) > 1

\* the assert of startpt
StartptAssert(g, f) ==
  LET face == At(g.faces, f) IN
  \/ Len(face) = 1
  \/ LET first == At(g.edges, face[1])
         sec == At(g.edges, face[2])
     IN V1(first) # V1(sec) /\ V1(first) # V2(sec)

\* the assert of endpt
EndptAssert(g, f) ==
  LET face == At(g.faces, f) IN
  \/ Len(face) = 1
  \/ LET laste == At(g.edges, face[Len(face)])
         pene == At(g.edges, face[Len(face) - 1])
     IN V2(laste) # V1(pene) /\ V2(laste) # V2(pene)

\* the asserts addEdges meets for move meth on the open face at oF
AddEdgesAssert(g, oF, meth) ==
  LET nb == Nbhd(g, oF)
      size(f) == Len(At(g.faces, f))
  IN /\ StartptAssert(g, nb.fF)
     /\ EndptAssert(g, nb.fF)
     /\ meth \in 1..NUM_METH
     /\ meth \in {3, 6} =>
          /\ meth = 3 => size(nb.nnF) = 1
          /\ EndptAssert(g, nb.nF)
          /\ EndptAssert(g, nb.nnF)
     /\ meth \in {4, 7} =>
          /\ meth = 4 => size(nb.ppF) = 1
          /\ EndptAssert(g, nb.pF)
          /\ endpt(g, nb.pF) = startpt(g, nb.fF)
          /\ StartptAssert(g, nb.pF)
          /\ StartptAssert(g, nb.ppF)
     /\ meth = 8 =>
          /\ size(nb.nnF) = 1
          /\ StartptAssert(g, nb.nF)
          /\ endpt(g, nb.fF) = startpt(g, nb.nF)
          /\ EndptAssert(g, nb.nF)
          /\ endpt(g, nb.nnF) # endpt(g, nb.nF)
     /\ meth = 9 =>
          /\ size(nb.ppF) = 1
          /\ EndptAssert(g, nb.pF)
          /\ endpt(g, nb.pF) = startpt(g, nb.fF)
          /\ StartptAssert(g, nb.pF)
          \* startpt(faces[pF]) is asserted again after the new edge
          \* (startpt(pF), startF) was pushed onto faces[pF]: if that made it
          \* the second edge, it shares first.v1 and the assert fails
          /\ size(nb.pF) > 1
          /\ StartptAssert(g, nb.ppF)
          /\ startpt(g, nb.ppF) # startpt(g, nb.pF)

\* the assert of sizecheck and of sizefinal: the counters agree with the
\* closed faces
CountersAssert(g) ==
  /\ ClosedOfLen(g, 3) = 1
  /\ ClosedOfLen(g, 4) = g.nsq
  /\ ClosedOfLen(g, 5) = g.npent
  /\ ClosedOfLen(g, 6) = g.nhex

(***************************************************************************)
(* GraphState::canongraph.  SgAdj is the adjacency structure written to    *)
(* sg (the neighbours of vertex v, 1-based here).  sparsenauty is an       *)
(* external library: canong is modelled by an isomorphism invariant of sg, *)
(* the multiset over the vertices of their distance profiles (the number   *)
(* of vertices at distance 1, 2, ...), so that isomorphic graphs get the   *)
(* same key.                                                               *)
(***************************************************************************)
SgAdj(g) ==
  [v \in 1..g.numverts |->
     {V2(g.edges[i]) : i \in {j \in DOMAIN g.edges : V1(g.edges[j]) = v}}
       \cup {V1(g.edges[i]) : i \in {j \in DOMAIN g.edges : V2(g.edges[j]) = v}}]

RECURSIVE Layers(_, _, _)
Layers(adj, seen, frontier) ==
  LET next == (UNION {adj[v] : v \in frontier}) \ seen IN
  IF next = {} THEN <<>>
  ELSE <<Cardinality(next)>> \o Layers(adj, seen \cup next, next)

\* the key of the graph whose vertices have the distance profiles prof
ProfileKey(prof) ==
  {<<prof[v], Cardinality({w \in DOMAIN prof : prof[w] = prof[v]})>> : v \in DOMAIN prof}

\* adj and prof are bound as set elements so that each is computed once
canongraph(g) ==
  CHOOSE key \in UNION {{ProfileKey(prof) :
                            prof \in {[v \in 1..g.numverts |-> Layers(adj, {v}, {v})]}} :
                          adj \in {SgAdj(g)}} : TRUE

\* SG_DECL(GraphState::canong): the sparsegraph before any call, nde = 0
EmptyGraph == ProfileKey(<<>>)

(***************************************************************************)
(* main: the backtracking driver.  pc = "loop" is the top of the for(;;)   *)
(* loop, pc = "applied" the point right after G.addEdges(), pc = "done"    *)
(* the point after the loop, pc = "aborted" a failed assert of planar.cc.  *)
(***************************************************************************)
Progs == {"fast", "planar"}

\* the values of MAX_FACES the model runs the drivers with
Bounds == LeastBound..MaxBound

\* vector<int> nsuccess(MAX_FACES - 6): the int is converted to size_type,
\* and a negative one asks for more than max_size() elements
VectorThrows(maxfaces) == maxfaces - 6 < 0

Init ==
  /\ prog \in Progs
  /\ MAX_FACES \in Bounds
  /\ G = Seed
  /\ graphStack = <<>>
  /\ canonslns = {}
  /\ nsuccess = IF prog = "fast" THEN [i \in 0..(MAX_FACES - 7) |-> 0] ELSE 0
  /\ ncanon = 0
  /\ canong = EmptyGraph
  /\ errstatus = 0
  /\ pop = FALSE
  /\ pc = IF prog = "fast" /\ VectorThrows(MAX_FACES) THEN "aborted" ELSE "loop"

\* a backtrack that copies the stacked state back but leaves it stacked
BacktrackNoPopBack ==
  /\ pc = "loop"
  /\ pop
  /\ graphStack # <<>>
  /\ G' = Back(graphStack)
  /\ pop' = FALSE
  /\ UNCHANGED <<prog, MAX_FACES, graphStack, canonslns, nsuccess, ncanon, canong, errstatus, pc>>

\* if (pop) { G = graphStack.back(); graphStack.pop_back(); pop = false; }
Backtrack ==
  /\ pc = "loop"
  /\ pop
  /\ graphStack # <<>>
  /\ G' = Back(graphStack)
  /\ graphStack' = SubSeq(graphStack, 1, Len(graphStack) - 1)
  /\ pop' = FALSE
  /\ UNCHANGED <<prog, MAX_FACES, canonslns, nsuccess, ncanon, canong, errstatus, pc>>

\* if (pop) { if (graphStack.empty()) break; ... }
Finish ==
  /\ pc = "loop"
  /\ pop
  /\ graphStack = <<>>
  /\ pc' = "done"
  /\ UNCHANGED <<prog, MAX_FACES, G, graphStack, canonslns, nsuccess, ncanon, canong, errstatus, pop>>

\* if (!G.incMethod()) { pop = true; continue; }
NoMove ==
  /\ pc = "loop"
  /\ ~pop
  /\ IF prog = "planar" /\ ~IsValidAssert(G)
     THEN /\ pc' = "aborted"
          /\ UNCHANGED <<G, pop>>
     ELSE \E inc \in {incMethod(G)} :
            /\ ~inc.found
            /\ G' = [G EXCEPT !.medgadd = inc.medgadd]
            /\ pop' = TRUE
            /\ pc' = pc
  /\ UNCHANGED <<prog, MAX_FACES, graphStack, canonslns, nsuccess, ncanon, canong, errstatus>>

\* graphStack.push_back(G); G.addEdges();
Apply ==
  /\ pc = "loop"
  /\ ~pop
  /\ prog = "planar" => IsValidAssert(G)
  /\ \E inc \in {incMethod(G)} :
       /\ inc.found
       /\ IF Len(graphStack) >= MaxDepth
          THEN \* push_back finds no memory left and throws
               /\ graphStack' = graphStack
               /\ G' = [G EXCEPT !.medgadd = inc.medgadd]
               /\ pc' = "aborted"
          ELSE /\ graphStack' = Append(graphStack, [G EXCEPT !.medgadd = inc.medgadd])
               /\ IF prog = "planar" /\ ~AddEdgesAssert(G, G.chosenFace, inc.medgadd)
                  THEN /\ G' = [G EXCEPT !.medgadd = inc.medgadd]
                       /\ pc' = "aborted"
                  ELSE /\ G' = [addEdges(G, G.chosenFace, inc.medgadd)
                                  EXCEPT !.medgadd = inc.medgadd]
                       /\ pc' = "applied"
  /\ UNCHANGED <<prog, MAX_FACES, canonslns, nsuccess, ncanon, canong, errstatus, pop>>

\* the symmetry test of planar.cc on faces[2] and faces[3]
SymTest(g) ==
  /\ Len(At(g.faces, 2)) > 4
  /\ ~(\E o \in DOMAIN g.openfaces : g.openfaces[o] = 3)
  /\ Len(At(g.faces, 3)) < Len(At(g.faces, 2))

\* planar.cc: we should have seen this case when face 2 was a square or pent
SymPrune ==
  /\ pc = "applied"
  /\ prog = "planar"
  /\ SymTest(G)
  /\ pop' = TRUE
  /\ pc' = "loop"
  /\ UNCHANGED <<prog, MAX_FACES, G, graphStack, canonslns, nsuccess, ncanon, canong, errstatus>>

\* a test that accepts only the maps of exactly maxfaces faces
AcceptableExact(p, g, maxfaces) ==
  IF p = "fast"
  THEN sizefinalFast(g) /\ Len(g.faces) = maxfaces
  ELSE Len(g.faces) = maxfaces /\ sizefinalPlanar(g)

\* the test that guards G.canongraph() once the open boundary is empty
Acceptable(p, g, maxfaces) ==
  IF p = "fast"
  THEN sizefinalFast(g) /\ Len(g.faces) <= maxfaces
  ELSE ~(Len(g.faces) > maxfaces) /\ sizefinalPlanar(g)

\* a tally that counts every submitted map, new or not
TallyEvery(p, ns, g, second) ==
  IF p = "fast" THEN [ns EXCEPT ![g.nhex] = @ + 1] ELSE ns + 1

\* if (canonslns.emplace(...).second) ++nsuccess[G.nhex];   (planar-fast.cc)
\* if (canonslns.emplace(...).second) { ++nsuccess; ... }     (planar.cc)
\* second is the .second of the pair emplace returns
Tally(p, ns, g, second) ==
  IF second
  THEN IF p = "fast" THEN [ns EXCEPT ![g.nhex] = @ + 1] ELSE ns + 1
  ELSE ns

\* a closed-map branch that forgets to set pop
ClosedNoPop ==
  /\ pc = "applied"
  /\ G.openfaces = <<>>
  /\ pc' = "loop"
  /\ pop' = FALSE
  /\ UNCHANGED <<prog, MAX_FACES, G, graphStack, canonslns, nsuccess, ncanon, canong, errstatus>>

\* what a call of sparsenauty on a graph whose canonical form is key may leave
\* in stats.errstatus and canong, which held old: the canonical form and no
\* error; or, when the call may fail, an error with canong left as it was
\* or written all the same
sparsenauty(old, key, mayfail) ==
  {[errstatus |-> 0, canong |-> key]}
    \cup (IF mayfail
          THEN {[errstatus |-> 1, canong |-> old], [errstatus |-> 1, canong |-> key]}
          ELSE {})

\* G.canongraph() has left out in stats and canong;
\* canonslns.emplace(G.canong.e, G.canong.e + G.canong.nde) and the tally
Emplace(out) ==
  /\ ncanon' = ncanon + 1
  /\ errstatus' = out.errstatus
  /\ canong' = out.canong
  /\ canonslns' = canonslns \cup {out.canong}
  /\ nsuccess' = Tally(prog, nsuccess, G, out.canong \notin canonslns)

\* if (G.openfaces.empty()) { ...; pop = true; continue; }
Closed ==
  /\ pc = "applied"
  /\ prog = "planar" => ~SymTest(G)
  /\ G.openfaces = <<>>
  /\ IF prog = "planar" /\ ~(Len(G.faces) > MAX_FACES) /\ ~CountersAssert(G)
     THEN /\ pc' = "aborted"
          /\ UNCHANGED <<canonslns, nsuccess, ncanon, canong, errstatus>>
     ELSE /\ pc' = "loop"
          /\ IF Acceptable(prog, G, MAX_FACES)
             THEN \E key \in {canongraph(G)} : Emplace([errstatus |-> 0, canong |-> key])
             ELSE UNCHANGED <<canonslns, nsuccess, ncanon, canong, errstatus>>
  /\ pop' = TRUE
  /\ UNCHANGED <<prog, MAX_FACES, G, graphStack>>

\* the closed-map branch with an oracle that may report an error
ClosedOracle ==
  /\ pc = "applied"
  /\ prog = "planar" => ~SymTest(G)
  /\ G.openfaces = <<>>
  /\ IF prog = "planar" /\ ~(Len(G.faces) > MAX_FACES) /\ ~CountersAssert(G)
     THEN /\ pc' = "aborted"
          /\ UNCHANGED <<canonslns, nsuccess, ncanon, canong, errstatus>>
     ELSE /\ pc' = "loop"
          /\ IF Acceptable(prog, G, MAX_FACES)
             THEN \E key \in {canongraph(G)} :
                    \E out \in sparsenauty(canong, key, ncanon < FailCalls) : Emplace(out)
             ELSE UNCHANGED <<canonslns, nsuccess, ncanon, canong, errstatus>>
  /\ pop' = TRUE
  /\ UNCHANGED <<prog, MAX_FACES, G, graphStack>>

\* a depth test that fires two moves earlier
CurtailEarly(depth, maxfaces) ==
  IF maxfaces - 4 < 0 THEN FALSE ELSE depth > maxfaces - 6

\* graphStack.size() > MAX_FACES - 4 compares a size_t with an int: the int
\* is converted, so that a negative MAX_FACES - 4 becomes 2^64 + MAX_FACES - 4,
\* which no stack size exceeds
Curtail(depth, maxfaces) ==
  IF maxfaces - 4 < 0 THEN FALSE ELSE depth > maxfaces - 4

\* a depth test that is too late by 8 levels
PruneTestLate(g, depth, maxfaces) ==
  IF depth > maxfaces + 4 THEN TRUE
  ELSE IF Len(g.openfaces) = 1 THEN TRUE
  ELSE ~sizecheck(g)

\* the tests without the one of a single open face
PruneTestNoSingle(g, depth, maxfaces) ==
  IF Curtail(depth, maxfaces) THEN TRUE
  ELSE ~sizecheck(g)

\* the three tests that abandon a branch with a non-empty open boundary
PruneTest(g, depth, maxfaces) ==
  IF Curtail(depth, maxfaces) THEN TRUE
  ELSE IF Len(g.openfaces) = 1 THEN TRUE
  ELSE ~sizecheck(g)

\* the assert of sizecheck is met when sizecheck gets past its early returns
SizecheckAsserts(g, depth, maxfaces) ==
  IF Curtail(depth, maxfaces) THEN TRUE
  ELSE IF Len(g.openfaces) = 1 THEN TRUE
  ELSE IF \E f \in DOMAIN g.faces : Len(g.faces[f]) > 6 THEN TRUE
  ELSE IF \E o \in DOMAIN g.openfaces : Len(At(g.faces, g.openfaces[o])) > 5 THEN TRUE
  ELSE IF ClosedOfLen(g, 0) # 0 \/ ClosedOfLen(g, 1) # 0 \/ ClosedOfLen(g, 2) # 0 THEN TRUE
  ELSE CountersAssert(g)

\* if (graphStack.size() > MAX_FACES - 4 || G.openfaces.size() == 1
\*     || !G.sizecheck()) { pop = true; continue; }
Prune ==
  /\ pc = "applied"
  /\ prog = "planar" => ~SymTest(G)
  /\ G.openfaces # <<>>
  /\ IF prog = "planar" /\ ~SizecheckAsserts(G, Len(graphStack), MAX_FACES)
     THEN /\ pc' = "aborted"
          /\ UNCHANGED pop
     ELSE /\ PruneTest(G, Len(graphStack), MAX_FACES)
          /\ pop' = TRUE
          /\ pc' = "loop"
  /\ UNCHANGED <<prog, MAX_FACES, G, graphStack, canonslns, nsuccess, ncanon, canong, errstatus>>

\* a chooseFace() step that does not wait for the three tests to pass
SelectUnguarded ==
  /\ pc = "applied"
  /\ G.openfaces # <<>>
  /\ G' = chooseFace(G)
  /\ pc' = "loop"
  /\ UNCHANGED <<prog, MAX_FACES, graphStack, canonslns, nsuccess, ncanon, canong, errstatus, pop>>

\* G.chooseFace();
Select ==
  /\ pc = "applied"
  /\ prog = "planar" => ~SymTest(G)
  /\ G.openfaces # <<>>
  /\ prog = "planar" => SizecheckAsserts(G, Len(graphStack), MAX_FACES)
  /\ ~PruneTest(G, Len(graphStack), MAX_FACES)
  /\ G' = chooseFace(G)
  /\ pc' = "loop"
  /\ UNCHANGED <<prog, MAX_FACES, graphStack, canonslns, nsuccess, ncanon, canong, errstatus, pop>>

Next ==
  \/ Backtrack
  \/ Finish
  \/ NoMove
  \/ Apply
  \/ SymPrune
  \/ Closed
  \/ Prune
  \/ Select

Spec == Init /\ [][Next]_vars

\* the loop of main runs until it breaks: no step is postponed forever
FairSpec == Spec /\ WF_vars(Next)

\* the driver with an oracle that may fail
NextOracle ==
  \/ Backtrack
  \/ Finish
  \/ NoMove
  \/ Apply
  \/ SymPrune
  \/ ClosedOracle
  \/ Prune
  \/ Select

OracleSpec == Init /\ [][NextOracle]_vars

(***************************************************************************)
(* The closed-map branch of planar.cc as a function of the map it is given *)
(* (GraphState::sizefinal and the lines of main around it).  The search    *)
(* itself only completes cubic maps, so the maps handed to the branch here *)
(* are made from the first map the search completes: Descend follows the   *)
(* moves of that branch from the seed as main does, and FinalInputs        *)
(* redirects the second endpoint of one edge of the map to any vertex      *)
(* (the faces, which list edge indices, and the counters stay as they      *)
(* are).                                                                   *)
(***************************************************************************)
\* the stack and the live state of main after the moves have been chosen
\* and applied in turn, starting in state g with stack stacked
RECURSIVE Descend(_, _, _)
Descend(stacked, g, moves) ==
  IF moves = <<>> THEN [G |-> g, graphStack |-> stacked]
  ELSE LET pushed == [g EXCEPT !.medgadd = Head(moves)]
           h == [addEdges(g, g.chosenFace, Head(moves)) EXCEPT !.medgadd = Head(moves)]
       IN IF Len(moves) = 1
          THEN [G |-> h, graphStack |-> Append(stacked, pushed)]
          ELSE Descend(Append(stacked, pushed), chooseFace(h), Tail(moves))

\* the branch on which the search completes its first map
FirstBranch == Descend(<<>>, Seed, <<5, 2, 5, 2, 2, 1>>)

FinalInputs ==
  {[FirstBranch.G EXCEPT !.edges[i] = <<V1(@), w>>] :
     i \in DOMAIN FirstBranch.G.edges, w \in 1..FirstBranch.G.numverts}

InitFinal ==
  /\ prog = "planar"
  /\ MAX_FACES \in Bounds
  /\ G \in FinalInputs
  /\ graphStack = FirstBranch.graphStack
  /\ canonslns = {}
  /\ nsuccess = 0
  /\ ncanon = 0
  /\ canong = EmptyGraph
  /\ errstatus = 0
  /\ pop = FALSE
  /\ pc = "applied"

NextFinal ==
  \/ Closed
  \/ Backtrack

FinalSpec == InitFinal /\ [][NextFinal]_vars

(***************************************************************************)
(* Vocabulary of the properties below.                                     *)
(***************************************************************************)
\* the faces of g that openfaces refers to, and the other (closed) ones
OpenFaceSet(g) == {g.openfaces[o] : o \in DOMAIN g.openfaces}

ClosedFaceSet(g) == (0..(Len(g.faces) - 1)) \ OpenFaceSet(g)

FaceLen(g, f) == Len(At(g.faces, f))

\* the vertices the edges of g join
VertexSet(g) == {V1(g.edges[i]) : i \in DOMAIN g.edges} \cup {V2(g.edges[i]) : i \in DOMAIN g.edges}

\* G is the seed itself: nothing is stacked and no move is applied on it
SeedOnTop == graphStack = <<>> /\ pc # "applied"

(***************************************************************************)
(* C8 (as stated): the seed has 7 vertices, 8 edges and 7 faces, 5 open    *)
(* and 2 closed, the closed ones being one triangle and one face of        *)
(* length 2.                                                               *)
(***************************************************************************)
C8_SeedAsStated ==
  SeedOnTop =>
    /\ G.numverts = 7 /\ VertexSet(G) = 1..7
    /\ Len(G.edges) = 8
    /\ Len(G.faces) = 7
    /\ Len(G.openfaces) = 5 /\ Cardinality(OpenFaceSet(G)) = 5
    /\ Cardinality(ClosedFaceSet(G)) = 2
    /\ {FaceLen(G, f) : f \in ClosedFaceSet(G)} = {3, 2}

(***************************************************************************)
(* C8 (amended): the seed has 7 vertices, 8 edges and 7 faces, 5 open and  *)
(* 2 closed; the closed ones are the triangle and a hexagon (counted by    *)
(* nhex = 1), and the open ones have lengths 2, 2, 1, 1, 1.                *)
(***************************************************************************)
C8_SeedShape ==
  SeedOnTop =>
    /\ G.numverts = 7 /\ VertexSet(G) = 1..7
    /\ Len(G.edges) = 8
    /\ Len(G.faces) = 7
    /\ Len(G.openfaces) = 5 /\ Cardinality(OpenFaceSet(G)) = 5
    /\ Cardinality(ClosedFaceSet(G)) = 2
    /\ {FaceLen(G, f) : f \in ClosedFaceSet(G)} = {3, 6}
    /\ G.nhex = 1 /\ G.nsq = 0 /\ G.npent = 0
    /\ [o \in DOMAIN G.openfaces |-> FaceLen(G, G.openfaces[o])] = <<2, 2, 1, 1, 1>>

\* the seed right after construction, before any move is chosen
C8_Witness == SeedOnTop /\ G.medgadd = 0 /\ ~pop /\ pc = "loop"

(***************************************************************************)
(* Accepted maps.  A step submits G to the registry exactly when it        *)
(* advances ncanon, the number of canongraph() calls made so far.          *)
(***************************************************************************)
Submits == ncanon' # ncanon

Cubic(g) == \A v \in 1..g.numverts : Degree(g, v) = 3

Profile(g) ==
  /\ FacesOfLen(g, 3) = 1
  /\ FacesOfLen(g, 4) = 2
  /\ FacesOfLen(g, 5) = 5
  /\ FacesOfLen(g, 6) = Len(g.faces) - 8
  /\ \A f \in DOMAIN g.faces : Len(g.faces[f]) \in 3..6

\* G is a closed map that has been handled and whose encoding is registered
Registered ==
  /\ pc = "loop" /\ pop
  /\ G.openfaces = <<>>
  /\ canongraph(G) \in canonslns

(***************************************************************************)
(* C1: every graph the driver submits to the registry has all vertices of  *)
(* degree exactly 3, one face of length 3, two of length 4, five of length *)
(* 5 and all its other faces of length 6.                                  *)
(***************************************************************************)
C1_AcceptedCubicProfile == [][Submits => Cubic(G) /\ Profile(G)]_vars

\* an accepted map with at least one hexagon beside the seed's, under either driver
C1_Witness == Registered /\ Cubic(G) /\ Profile(G) /\ FacesOfLen(G, 6) >= 2

(***************************************************************************)
(* C2: every graph the driver submits satisfies V - E + F = 2 and 2E = 3V, *)
(* with V = numverts, E the number of edges and F the number of faces.     *)
(***************************************************************************)
C2_AcceptedEuler ==
  [][Submits => /\ G.numverts - Len(G.edges) + Len(G.faces) = 2
                /\ 2 * Len(G.edges) = 3 * G.numverts]_vars

\* an accepted map of exactly MAX_FACES faces, with the two relations
C2_Witness ==
  /\ Registered
  /\ Len(G.faces) = MAX_FACES
  /\ G.numverts - Len(G.edges) + Len(G.faces) = 2
  /\ 2 * Len(G.edges) = 3 * G.numverts

(***************************************************************************)
(* The success tally: the sum of the per-hexagon counts of planar-fast.cc, *)
(* the single counter of planar.cc.                                        *)
(***************************************************************************)
RECURSIVE SumUpTo(_, _)
SumUpTo(ns, i) == IF i < 0 THEN 0 ELSE ns[i] + SumUpTo(ns, i - 1)

TotalTally(p, ns, maxfaces) == IF p = "fast" THEN SumUpTo(ns, maxfaces - 7) ELSE ns

(***************************************************************************)
(* C3: the tally is incremented exactly when the encoding of a submitted   *)
(* map was not yet in the registry (an encoding already present leaves     *)
(* registry and tally alone), and after every step the total tally equals  *)
(* the number of encodings in the registry.                                *)
(***************************************************************************)
C3_TallyIsRegistrySize ==
  [][/\ TotalTally(prog, nsuccess', MAX_FACES)
          = TotalTally(prog, nsuccess, MAX_FACES)
              + (IF Submits /\ canongraph(G) \notin canonslns THEN 1 ELSE 0)
     /\ Submits /\ canongraph(G) \in canonslns
          => canonslns' = canonslns /\ nsuccess' = nsuccess
     /\ TotalTally(prog, nsuccess', MAX_FACES) = Cardinality(canonslns')]_vars

\* a map was submitted whose encoding was already present, and was not counted
C3_Witness ==
  /\ Registered
  /\ ncanon > Cardinality(canonslns)
  /\ TotalTally(prog, nsuccess, MAX_FACES) = Cardinality(canonslns)
  /\ Cardinality(canonslns) >= 2

(***************************************************************************)
(* C4: a map is submitted only when its open boundary is empty, the        *)
(* completion test of the driver passes and it has at most MAX_FACES       *)
(* faces; and after any move that empties the open boundary the driver     *)
(* sets pop and leaves the map as it is, so that its next step replaces it *)
(* by the stacked state (or ends the search) and tries no move on it.      *)
(***************************************************************************)
C4_SubmitOnlyClosedThenBacktrack ==
  [][/\ Submits =>
          /\ pc = "applied"
          /\ G.openfaces = <<>>
          /\ IF prog = "fast" THEN sizefinalFast(G) ELSE sizefinalPlanar(G)
          /\ Len(G.faces) <= MAX_FACES
     /\ pc = "applied" /\ G.openfaces = <<>> =>
          /\ pop' /\ pc' = "loop"
          /\ G' = G /\ graphStack' = graphStack
     /\ pc = "loop" /\ pop /\ G.openfaces = <<>> =>
          /\ graphStack # <<>>
          /\ G' = Back(graphStack)
          /\ Len(graphStack') = Len(graphStack) - 1]_vars

\* planar.cc has emptied the boundary, the map passed both tests and was
\* submitted, and pop is set with the parent state still stacked
C4_Witness ==
  /\ Registered
  /\ prog = "planar"
  /\ sizefinalPlanar(G)
  /\ Len(G.faces) <= MAX_FACES
  /\ graphStack # <<>>

(***************************************************************************)
(* Closed faces and vertex degrees of the map under construction.          *)
(***************************************************************************)
ClosedLens(g, k) == Cardinality({f \in ClosedFaceSet(g) : FaceLen(g, f) = k})

\* the vertices at which some open face starts or ends
BoundaryEnds(g) ==
  {V1(g.edges[At(At(g.faces, f), 0) + 1]) : f \in OpenFaceSet(g)}
    \cup {V2(g.edges[Back(At(g.faces, f)) + 1]) : f \in OpenFaceSet(g)}

\* G is the result of a move that has just been applied
MoveApplied == pc = "applied"

(***************************************************************************)
(* C5: after every completed move application every closed face has a      *)
(* length between 3 and 6, at most 2 closed faces have length 4, at most 5 *)
(* have length 5, and exactly one has length 3.                            *)
(***************************************************************************)
C5_ClosedFaceBudget ==
  MoveApplied =>
    /\ \A f \in ClosedFaceSet(G) : FaceLen(G, f) \in 3..6
    /\ ClosedLens(G, 4) <= 2
    /\ ClosedLens(G, 5) <= 5
    /\ ClosedLens(G, 3) = 1

\* a move has closed the second square while the boundary is still open
C5_Witness ==
  /\ MoveApplied
  /\ G.openfaces # <<>>
  /\ ClosedLens(G, 4) = 2
  /\ ClosedLens(G, 3) = 1

(***************************************************************************)
(* C6: after every completed move application every vertex has degree at   *)
(* most 3, and every vertex that is not the start or end vertex of an open *)
(* face has degree exactly 3.                                              *)
(***************************************************************************)
C6_DegreeAtMostThree ==
  MoveApplied =>
    /\ \A v \in 1..G.numverts : Degree(G, v) <= 3
    /\ \A v \in (1..G.numverts) \ BoundaryEnds(G) : Degree(G, v) = 3

\* a move has left both boundary vertices of degree 2 and interior ones
C6_Witness ==
  /\ MoveApplied
  /\ \E v \in BoundaryEnds(G) : Degree(G, v) = 2
  /\ (1..G.numverts) \ BoundaryEnds(G) # {}
  /\ G.numverts > 7

(***************************************************************************)
(* C7 (as stated): in every state of the search after a completed move     *)
(* application the total number of faces is at most MAX_FACES.             *)
(***************************************************************************)
C7_FacesWithinBoundAsStated == MoveApplied => Len(G.faces) <= MAX_FACES

(***************************************************************************)
(* C7 (amended): the search bounds the stack, not the face count: after    *)
(* every completed move application the map has at most 7 + 2 * (stack     *)
(* size) faces, and for MAX_FACES >= 4 the stack holds at most             *)
(* MAX_FACES - 3 states, hence the map at most 2 * MAX_FACES + 1 faces;    *)
(* only a submitted map is held to MAX_FACES.                              *)
(***************************************************************************)
C7_FacesWithinTwiceDepth ==
  /\ MoveApplied =>
       /\ Len(G.faces) <= 7 + 2 * Len(graphStack)
       /\ MAX_FACES >= 4 =>
            /\ Len(graphStack) <= MAX_FACES - 3
            /\ Len(G.faces) <= 2 * MAX_FACES + 1
  /\ Registered => Len(G.faces) <= MAX_FACES

\* the deepest level of the search, holding a map of more than MAX_FACES faces
C7_Witness ==
  /\ MoveApplied
  /\ Len(graphStack) = MAX_FACES - 3
  /\ Len(G.faces) > MAX_FACES

(***************************************************************************)
(* C9: for each bound MAX_FACES the driver started on the seed reaches its *)
(* terminal state: the loop is left, the stack is empty, and G is the seed *)
(* with no untried legal move id left.                                     *)
(***************************************************************************)
Terminal ==
  /\ pc = "done"
  /\ graphStack = <<>>
  /\ [G EXCEPT !.medgadd = 0] = Seed
  /\ ~incMethod(G).found

EnabledSteps ==
  (IF ENABLED Backtrack THEN 1 ELSE 0) + (IF ENABLED Finish THEN 1 ELSE 0)
    + (IF ENABLED NoMove THEN 1 ELSE 0) + (IF ENABLED Apply THEN 1 ELSE 0)
    + (IF ENABLED SymPrune THEN 1 ELSE 0) + (IF ENABLED Closed THEN 1 ELSE 0)
    + (IF ENABLED Prune THEN 1 ELSE 0) + (IF ENABLED Select THEN 1 ELSE 0)

Child(k) ==
  [addEdges(graphStack[k], graphStack[k].chosenFace, graphStack[k].medgadd)
     EXCEPT !.medgadd = graphStack[k].medgadd]

\* the driver p run with bound b goes on from the state child, met with
\* depth states stacked, to choose a face
ContinuesUnder(p, child, depth, b) ==
  /\ p = "planar" => ~SymTest(child)
  /\ child.openfaces # <<>>
  /\ ~PruneTest(child, depth, b)

\* the driver run with bound b follows the moves of the current branch from
\* the seed to G and submits G
ReachedAndAccepted(b) ==
  /\ ~(prog = "fast" /\ VectorThrows(b))
  /\ graphStack # <<>>
  /\ [graphStack[1] EXCEPT !.medgadd = 0] = Seed
  /\ \A k \in 1..Len(graphStack) :
       isValid(graphStack[k], graphStack[k].chosenFace, graphStack[k].medgadd)
  /\ \A k \in 1..(Len(graphStack) - 1) :
       \E c \in {Child(k)} :
          /\ ContinuesUnder(prog, c, k, b)
          /\ [graphStack[k + 1] EXCEPT !.medgadd = 0] = chooseFace(c)
  /\ G = Child(Len(graphStack))
  /\ prog = "planar" => ~SymTest(G)
  /\ G.openfaces = <<>>
  /\ Acceptable(prog, G, b)

(***************************************************************************)
(* C11: raising the bound only adds accepted maps: whenever the driver run *)
(* with bound MAX_FACES submits a map, the same driver run with any        *)
(* greater bound follows the same moves from the seed, passes every test   *)
(* on the way and submits the same map.                                    *)
(***************************************************************************)
C11_AcceptedUnderGreaterBound ==
  [][Submits => \A b \in (MAX_FACES + 1)..(MaxBound + 1) : ReachedAndAccepted(b)]_vars

\* a map of exactly MAX_FACES faces was submitted by a run whose bound can
\* still be raised, and the next bound accepts it as well
C11_Witness ==
  /\ Registered
  /\ MAX_FACES < MaxBound
  /\ Len(G.faces) = MAX_FACES
  /\ ReachedAndAccepted(MAX_FACES)
  /\ ReachedAndAccepted(MAX_FACES + 1)

(***************************************************************************)
(* C12 (as stated): when the oracle reports an error status for a          *)
(* candidate map, that candidate is not inserted into the registry and not *)
(* counted, and the search continues with the next branch.                 *)
(***************************************************************************)
C12_FailedCandidateNotRecorded ==
  [][Submits /\ errstatus' # 0 =>
       /\ canonslns' = canonslns
       /\ nsuccess' = nsuccess
       /\ pop' /\ pc' = "loop"]_vars

\* the oracle has reported an error and left canong empty; the empty
\* encoding is in the registry and counted as a map, the candidate's is not
C12_Witness ==
  /\ pc = "loop" /\ pop
  /\ G.openfaces = <<>>
  /\ errstatus # 0
  /\ canong = EmptyGraph
  /\ canonslns = {EmptyGraph}
  /\ canongraph(G) \notin canonslns
  /\ TotalTally(prog, nsuccess, MAX_FACES) = 1

\* the closed-map branch is entered with a map that has a vertex of degree
\* other than 3
NonCubicCompleted == pc = "applied" /\ G.openfaces = <<>> /\ ~Cubic(G)

LegalAbove(g) == {m \in (g.medgadd + 1)..NUM_METH : isValid(g, g.chosenFace, m)}

Least(S) == CHOOSE m \in S : \A k \in S : m <= k

(***************************************************************************)
(* C14: incMethod moves the cursor to the least legal move id above it and *)
(* returns true, or returns false when no id up to 10 above the cursor is  *)
(* legal: the driver then stacks the state with that cursor and applies    *)
(* that move, or sets pop and changes nothing but the cursor.  A backtrack *)
(* restores the stacked state with the cursor at the id of the move        *)
(* undone, so that the legal ids of a state are applied in strictly        *)
(* ascending order, each once.                                             *)
(***************************************************************************)
C14_CursorAscends ==
  [][/\ pc = "loop" /\ ~pop /\ pc' # "aborted" =>
          \E legal \in {LegalAbove(G)} :
             IF legal # {}
             THEN \E m \in {Least(legal)} :
                    /\ pc' = "applied"
                    /\ graphStack' = Append(graphStack, [G EXCEPT !.medgadd = m])
                    /\ G' = [addEdges(G, G.chosenFace, m) EXCEPT !.medgadd = m]
             ELSE /\ pop' /\ pc' = "loop"
                  /\ graphStack' = graphStack
                  /\ [G' EXCEPT !.medgadd = 0] = [G EXCEPT !.medgadd = 0]
     /\ pc = "loop" /\ pop /\ graphStack # <<>> =>
          /\ G' = Back(graphStack)
          /\ G'.medgadd \in 1..NUM_METH
          /\ isValid(G', G'.chosenFace, G'.medgadd)
          /\ ~pop' /\ pc' = "loop"]_vars

\* a move has been applied on a state that a backtrack had restored: a
\* smaller id is legal on that state too, and an illegal id lies between
C14_Witness ==
  /\ pc = "applied"
  /\ \E s \in {Back(graphStack)} :
       \E m \in 1..(s.medgadd - 1) :
          /\ isValid(s, s.chosenFace, m)
          /\ \E k \in (m + 1)..(s.medgadd - 1) : ~isValid(s, s.chosenFace, k)

(***************************************************************************)
(* The boundary lengths of the open faces of g, by position in openfaces   *)
(* (0-based, as chosenFace counts).                                        *)
(***************************************************************************)
OpenLen(g, o) == FaceLen(g, At(g.openfaces, o))

Longest(g) == {o \in 0..(Len(g.openfaces) - 1) :
                 \A q \in 0..(Len(g.openfaces) - 1) : OpenLen(g, q) <= OpenLen(g, o)}

\* the step of the driver that calls chooseFace: the only one that leaves
\* the point after addEdges without setting pop
Chooses == pc = "applied" /\ pc' = "loop" /\ ~pop'

(***************************************************************************)
(* C15: chooseFace sets chosenFace to the lowest index of openfaces whose  *)
(* face has the greatest boundary length among the open faces, resets the  *)
(* move cursor to 0 and changes nothing else in the state.                 *)
(***************************************************************************)
C15_ChoosesFirstLongest ==
  [][Chooses =>
       /\ G'.chosenFace \in Longest(G)
       /\ \A o \in Longest(G) : G'.chosenFace <= o
       /\ G'.medgadd = 0
       /\ G' = [G EXCEPT !.chosenFace = G'.chosenFace, !.medgadd = 0]]_vars

\* chooseFace has chosen a face that is not the first of the boundary, with
\* a later face as long as the chosen one
C15_Witness ==
  /\ pc = "loop" /\ ~pop
  /\ graphStack # <<>>
  /\ G.medgadd = 0
  /\ G.chosenFace > 0
  /\ G.chosenFace \in Longest(G)
  /\ \E o \in Longest(G) : o > G.chosenFace

\* the open boundary is not empty after the move just applied
BoundaryOpen == pc = "applied" /\ G.openfaces # <<>>

(***************************************************************************)
(* C16: after a move that leaves the open boundary non-empty, the driver   *)
(* chooses a new face and continues the branch only if the stack size is   *)
(* at most MAX_FACES - 4, the open boundary has at least two entries and   *)
(* the prune test (sizecheck) passes; in every other case it sets pop and  *)
(* leaves state and stack alone, so that its next step is a backtrack.     *)
(***************************************************************************)
C16_ContinuesOnlyWithinDepth ==
  [][BoundaryOpen =>
       /\ Chooses =>
            /\ Len(graphStack) <= MAX_FACES - 4
            /\ Len(G.openfaces) >= 2
            /\ sizecheck(G)
       /\ ~Chooses =>
            /\ pop' /\ pc' = "loop"
            /\ G' = G /\ graphStack' = graphStack /\ graphStack # <<>>]_vars

\* planar.cc run with MAX_FACES = 3 has chosen a new face with more than
\* MAX_FACES - 4 states stacked
C16_Witness ==
  /\ prog = "planar"
  /\ pc = "loop" /\ ~pop
  /\ G.medgadd = 0
  /\ MAX_FACES - 4 < 0
  /\ Len(graphStack) > MAX_FACES - 4
  /\ Len(graphStack) >= 2

(***************************************************************************)
(* C17: backtracking undoes a move completely.  The step that applies a    *)
(* move stacks a copy of the state in which the move was chosen, equal to  *)
(* it in every field, with the cursor at the id of the move; no step       *)
(* alters a stacked state; and a backtrack makes the last stacked state    *)
(* the live one and unstacks it.  Hence the state the driver resumes from  *)
(* is the state in which the move undone was chosen, with the cursor at    *)
(* that move's id.                                                         *)
(***************************************************************************)
C17_BacktrackRestores ==
  [][/\ pc = "loop" /\ ~pop /\ pc' = "applied" =>
          /\ graphStack' = Append(graphStack, [G EXCEPT !.medgadd = G'.medgadd])
          /\ G'.medgadd > G.medgadd
     /\ Len(graphStack') >= Len(graphStack) =>
          SubSeq(graphStack', 1, Len(graphStack)) = graphStack
     /\ pc = "loop" /\ pop /\ graphStack # <<>> =>
          /\ graphStack = Append(graphStack', G')
          /\ pc' = "loop" /\ ~pop']_vars

\* the driver has resumed a stacked state: its cursor holds the id of a
\* legal move, which would add edges to it again
C17_Witness ==
  /\ pc = "loop" /\ ~pop
  /\ graphStack # <<>>
  /\ G.medgadd >= 1
  /\ isValid(G, G.chosenFace, G.medgadd)
  /\ Len(addEdges(G, G.chosenFace, G.medgadd).edges) > Len(G.edges)

(***************************************************************************)
(* Legality against execution.  A face has just been chosen in G (or G is  *)
(* the seed); every position oF of the open boundary and every move id     *)
(* that isValid reports legal there form a legal pair.                     *)
(***************************************************************************)
FaceChosen == pc = "loop" /\ ~pop /\ G.medgadd = 0

LegalPairs(g) ==
  {p \in (0..(Len(g.openfaces) - 1)) \X (1..NUM_METH) : isValid(g, p[1], p[2])}

\* what the move table adds to the length of the selected face
FaceGrowth(meth) ==
  CASE meth = 1 -> 1
    [] meth = 2 -> 2
    [] meth \in {3, 4, 5} -> 3
    [] OTHER -> 4

\* the number of entries of the sequence s equal to k
Count(s, k) == Cardinality({i \in DOMAIN s : s[i] = k})

\* the number of closed faces of g of each length
ClosedProfile(g) ==
  LET len == [f \in ClosedFaceSet(g) |-> FaceLen(g, f)] IN
  [k \in 0..10 |-> Cardinality({f \in DOMAIN len : len[f] = k})]

\* the executor applied to the pair p of g, whose closed faces have the
\* profile before, closes faces of exactly the lengths isValid offered to
\* its counter, the selected face among them with its length grown as the
\* table says
ClosesAsOffered(g, before, p) ==
  \E h \in {addEdges(g, p[1], p[2])}, L \in {Sizes(g, p[1])} :
     \E after \in {ClosedProfile(h)}, offered \in {Offered(L, p[2])} :
        /\ \A k \in 0..10 : after[k] - before[k] = Count(offered, k)
        /\ Back(offered) = L.F + FaceGrowth(p[2])
        /\ \E f \in ClosedFaceSet(h) :
             /\ FaceLen(h, f) = L.F + FaceGrowth(p[2])
             /\ \A i \in DOMAIN At(g.faces, At(g.openfaces, p[1])) :
                  \E j \in DOMAIN At(h.faces, f) :
                     At(h.faces, f)[j] = At(g.faces, At(g.openfaces, p[1]))[i]
        /\ \A f \in ClosedFaceSet(h) : FaceLen(h, f) <= 6
        /\ after[3] <= N_TRI /\ after[4] <= N_SQ /\ after[5] <= N_PENT

(***************************************************************************)
(* C18: legality and execution agree: for every legal (face, move id)      *)
(* pair, each face the executor turns from open to closed ends with        *)
(* exactly the length isValid offered to its tentative counter (the        *)
(* selected face of length L with L+1, L+2, L+3, L+3, L+3, L+4, L+4, L+4,  *)
(* L+4, L+4 for ids 1..10, a closed neighbour with its length + 1), so no  *)
(* move closes a face longer than 6 or pushes the triangle, square or      *)
(* pentagon count over budget.                                             *)
(***************************************************************************)
C18_ExecutionClosesAsOffered ==
  FaceChosen =>
    \E before \in {ClosedProfile(G)} :
       \A p \in LegalPairs(G) : ClosesAsOffered(G, before, p)

\* a legal pair whose move closes a neighbour together with the selected
\* face, on a face other than the one the driver chose
C18_Witness ==
  /\ FaceChosen
  /\ \E p \in LegalPairs(G) :
       /\ p[2] \in {3, 4, 6, 7, 8, 9}
       /\ p[1] # G.chosenFace
       /\ ClosesAsOffered(G, ClosedProfile(G), p)

(***************************************************************************)
(* The second successor and the second predecessor of position oF on the   *)
(* cyclic open boundary of g.                                              *)
(***************************************************************************)
SecondSucc(g, oF) == (oF + 2) % Len(g.openfaces)

SecondPred(g, oF) == (oF + Len(g.openfaces) - 2) % Len(g.openfaces)

\* isValid reports some id of ids legal at position oF of g
LegalAt(g, oF, ids) == \E m \in ids : isValid(g, oF, m)

(***************************************************************************)
(* C19: with n the number of open faces, isValid never reports move 3 or 6 *)
(* legal when n < 4 or n = 5, never move 4 or 7 when n < 6, never move 8   *)
(* or 9 when n < 5; moves 3 and 8 require the second successor to have     *)
(* length 1, moves 4 and 9 the second predecessor to have length 1, move 6 *)
(* the second successor and move 7 the second predecessor to have length   *)
(* 2.                                                                      *)
(***************************************************************************)
C19_MoveGuards ==
  FaceChosen =>
    \E n \in {Len(G.openfaces)} :
       \A oF \in 0..(n - 1) :
          /\ LegalAt(G, oF, {3, 6}) => ~(n < 4 \/ n = 5)
          /\ LegalAt(G, oF, {4, 7}) => ~(n < 6)
          /\ LegalAt(G, oF, {8, 9}) => ~(n < 5)
          /\ LegalAt(G, oF, {3, 8}) => OpenLen(G, SecondSucc(G, oF)) = 1
          /\ LegalAt(G, oF, {4, 9}) => OpenLen(G, SecondPred(G, oF)) = 1
          /\ isValid(G, oF, 6) => OpenLen(G, SecondSucc(G, oF)) = 2
          /\ isValid(G, oF, 7) => OpenLen(G, SecondPred(G, oF)) = 2

\* five faces are open, and at some position move 8 is legal (the second
\* successor has length 1) while move 3 is refused
C19_Witness ==
  /\ FaceChosen
  /\ Len(G.openfaces) = 5
  /\ \E oF \in 0..4 :
       /\ isValid(G, oF, 8)
       /\ OpenLen(G, SecondSucc(G, oF)) = 1
       /\ ~isValid(G, oF, 3)

(***************************************************************************)
(* The move table: the edges and the new vertices it lists for each id,    *)
(* and the number of edges addEdges appends for it.                        *)
(***************************************************************************)
TableEdges(meth) == FaceGrowth(meth)

TableVertices(meth) ==
  CASE meth \in {2, 8, 9} -> 1
    [] meth = 5 -> 2
    [] meth = 10 -> 3
    [] OTHER -> 0

\* the edges on the selected face that the move takes over from the open
\* face it absorbs: the one edge of the second neighbour for ids 3, 4, 8
\* and 9, its two edges for ids 6 and 7
EdgesTakenOver(meth) ==
  CASE meth \in {3, 4, 8, 9} -> 1
    [] meth \in {6, 7} -> 2
    [] OTHER -> 0

\* the executor applied to the pair p of g appends edges more edges and
\* creates verts more vertices, and keeps the edges and vertices of g
Appends(g, p, edges, verts) ==
  \E h \in {addEdges(g, p[1], p[2])} :
     /\ Len(h.edges) = Len(g.edges) + edges
     /\ SubSeq(h.edges, 1, Len(g.edges)) = g.edges
     /\ h.numverts = g.numverts + verts
     /\ VertexSet(h) = 1..h.numverts

(***************************************************************************)
(* C20 (as stated): applying move id m appends to the edge sequence        *)
(* exactly the number of edges given in the move table (1, 2, 3, 3, 3, 4,  *)
(* 4, 4, 4, 4 for ids 1..10) and creates exactly the listed number of new  *)
(* vertices (0, 1, 0, 0, 2, 0, 0, 1, 1, 3).                                *)
(***************************************************************************)
C20_AppendsTableEdges ==
  FaceChosen =>
    \A p \in LegalPairs(G) : Appends(G, p, TableEdges(p[2]), TableVertices(p[2]))

(***************************************************************************)
(* C20 (amended): the number in the move table is the growth of the        *)
(* selected face's boundary; applying move id m appends to the edge        *)
(* sequence 1, 2, 2, 2, 3, 2, 2, 3, 3, 4 edges for ids 1..10 (the table's  *)
(* number less the edges of the absorbed second neighbour that the face    *)
(* takes over) and creates 0, 1, 0, 0, 2, 0, 0, 1, 1, 3 new vertices.      *)
(***************************************************************************)
C20_AppendsNewEdges ==
  FaceChosen =>
    \A p \in LegalPairs(G) :
       Appends(G, p, TableEdges(p[2]) - EdgesTakenOver(p[2]), TableVertices(p[2]))

\* ids 3 and 8 are legal somewhere on the boundary: move 3 appends 2 edges
\* and no vertex, move 8 appends 3 edges and 1 vertex
C20_Witness ==
  /\ FaceChosen
  /\ \E p \in LegalPairs(G) : p[2] = 3 /\ Appends(G, p, 2, 0)
  /\ \E p \in LegalPairs(G) : p[2] = 8 /\ Appends(G, p, 3, 1)

(***************************************************************************)
(* C21: after every completed move application the running counters equal  *)
(* the actual closed faces: nsq, npent and nhex are the numbers of closed  *)
(* faces of length 4, 5 and 6, and exactly one closed face has length 3;   *)
(* this holds also for the faces that close only because the open boundary *)
(* becomes empty.                                                          *)
(***************************************************************************)
C21_CountersAreClosedFaces ==
  MoveApplied =>
    /\ G.nsq = ClosedLens(G, 4)
    /\ G.npent = ClosedLens(G, 5)
    /\ G.nhex = ClosedLens(G, 6)
    /\ ClosedLens(G, 3) = 1

\* move 1 on the last two open faces has closed both of them: the boundary
\* is empty, the map has more hexagons than the seed, and all are counted
C21_Witness ==
  /\ MoveApplied
  /\ G.openfaces = <<>>
  /\ G.medgadd = 1
  /\ G.nsq = ClosedLens(G, 4) /\ G.nsq > 0
  /\ G.npent = ClosedLens(G, 5) /\ G.npent > 0
  /\ G.nhex = ClosedLens(G, 6) /\ G.nhex > 1

(***************************************************************************)
(* The closing loop of addEdges.  Counted lists the faces the move on the  *)
(* neighbourhood nb hands to countFace (the faces it closes), by the       *)
(* indices they have before the loop.                                      *)
(***************************************************************************)
Counted(nb, meth) ==
  {nb.fF}
    \cup (IF meth \in {3, 6, 8} THEN {nb.nF} ELSE {})
    \cup (IF meth \in {4, 7, 9} THEN {nb.pF} ELSE {})
    \cup (IF (meth = 1 /\ nb.n = 2) \/ (meth \in {3, 6} /\ nb.n = 4) THEN {nb.pF} ELSE {})
    \cup (IF meth \in {4, 7} /\ nb.n = 4 THEN {nb.nF} ELSE {})

\* the entries of openfaces are pairwise distinct indices into faces
ValidBoundary(g) ==
  /\ \A o \in DOMAIN g.openfaces : g.openfaces[o] \in 0..(Len(g.faces) - 1)
  /\ Cardinality(OpenFaceSet(g)) = Len(g.openfaces)

\* the move p of g: before the closing loop (state mid) no entry of
\* openfaces refers to a face the loop removes, to a face the move closed or
\* to a face that was closed in g; after it (state h) the entries are valid
\* and each refers to the face it referred to before the renumbering
Renumbered(g, p) ==
  \E mid \in {BeforeErase(g, p[1], p[2])}, nb \in {Nbhd(g, p[1])} :
     \E te \in {toerase(nb, p[2])} :
        \E h \in {EraseFaces(mid, te)} :
           /\ ValidBoundary(mid)
           /\ \A o \in DOMAIN mid.openfaces :
                /\ mid.openfaces[o] \notin {te[i] : i \in DOMAIN te}
                /\ mid.openfaces[o] \notin Counted(nb, p[2])
                /\ mid.openfaces[o] \notin ClosedFaceSet(g)
           /\ ValidBoundary(h)
           /\ Len(h.faces) = Len(mid.faces) - Len(te)
           /\ Len(h.openfaces) = Len(mid.openfaces)
           /\ \A o \in DOMAIN h.openfaces :
                At(h.faces, h.openfaces[o]) = At(mid.faces, mid.openfaces[o])

(***************************************************************************)
(* C22: after every completed move application the entries of the          *)
(* open-boundary sequence are pairwise distinct valid indices into the     *)
(* face sequence, none refers to a removed (absorbed) or closed face, and  *)
(* every surviving open face is referenced by the entry that referenced it *)
(* before the batch renumbering.                                           *)
(***************************************************************************)
C22_BoundaryValidAfterRenumbering ==
  /\ MoveApplied => ValidBoundary(G)
  /\ FaceChosen => \A p \in LegalPairs(G) : Renumbered(G, p)

\* a legal move that removes two face slots, the lower of them below an
\* entry of the open boundary that survives
C22_Witness ==
  /\ FaceChosen
  /\ \E p \in LegalPairs(G) :
       /\ Len(toerase(Nbhd(G, p[1]), p[2])) = 2
       /\ \E o \in DOMAIN BeforeErase(G, p[1], p[2]).openfaces :
            BeforeErase(G, p[1], p[2]).openfaces[o] > toerase(Nbhd(G, p[1]), p[2])[1]
       /\ Renumbered(G, p)

(***************************************************************************)
(* Orientation of the open boundary.                                       *)
(***************************************************************************)
\* the edges of face f of g follow each other head to tail
DirectedPath(g, f) ==
  \A i \in 1..(FaceLen(g, f) - 1) :
     V2(At(g.edges, At(g.faces, f)[i])) = V1(At(g.edges, At(g.faces, f)[i + 1]))

\* the position after o on the cyclic open boundary of g
CyclicSucc(g, o) == (o + 1) % Len(g.openfaces)

(***************************************************************************)
(* C23: in every reachable state each open face is a directed path (the    *)
(* second endpoint of each of its edges is the first endpoint of the next  *)
(* edge, so that its start vertex is the first edge's v1 and its end       *)
(* vertex the last edge's v2), and for every entry of the open-boundary    *)
(* sequence the end vertex of its face equals the start vertex of the face *)
(* of its cyclic successor.                                                *)
(***************************************************************************)
C23_OpenFacesChainUp ==
  /\ \A f \in OpenFaceSet(G) : DirectedPath(G, f)
  /\ \A o \in 0..(Len(G.openfaces) - 1) :
       endpt(G, At(G.openfaces, o)) = startpt(G, At(G.openfaces, CyclicSucc(G, o)))

\* a move with new vertices has pushed an edge onto the front of the
\* successor and onto the back of the predecessor: open faces of three
\* edges and more chain up around a boundary of six faces
C23_Witness ==
  /\ MoveApplied
  /\ G.medgadd \in {2, 5, 10}
  /\ Len(G.openfaces) >= 6
  /\ Cardinality({f \in OpenFaceSet(G) : FaceLen(G, f) >= 3}) >= 2
  /\ \A f \in OpenFaceSet(G) : DirectedPath(G, f)
  /\ endpt(G, Back(G.openfaces)) = startpt(G, At(G.openfaces, 0))

(***************************************************************************)
(* Moves that complete the map.                                            *)
(***************************************************************************)
\* the cases in which the move table lets a move close the whole boundary
\* of n open faces
ClosingCase(n, meth) == (meth = 1 /\ n = 2) \/ (meth \in {3, 6} /\ n = 4)

\* the counters of g and its closed faces agree
CountersMatch(g) ==
  /\ g.nsq = ClosedLens(g, 4)
  /\ g.npent = ClosedLens(g, 5)
  /\ g.nhex = ClosedLens(g, 6)

\* the predecessor of position oF of g is, one edge longer, a closed face
\* of h, and the counters of h have grown by one for each face closed
PredecessorCounted(g, oF, h) ==
  \E pF \in {Nbhd(g, oF).pF} :
     /\ \E f \in ClosedFaceSet(h) :
          /\ FaceLen(h, f) = FaceLen(g, pF) + 1
          /\ SubSeq(At(h.faces, f), 1, FaceLen(g, pF)) = At(g.faces, pF)
     /\ CountersMatch(h)
     /\ (h.nsq + h.npent + h.nhex) - (g.nsq + g.npent + g.nhex)
          = Cardinality(ClosedFaceSet(h)) - Cardinality(ClosedFaceSet(g))

(***************************************************************************)
(* C24: a move empties the open boundary only if it is move 1 applied with *)
(* exactly two open faces or move 3 or 6 applied with exactly four open    *)
(* faces; in these cases the predecessor face is closed too and is         *)
(* counted, and in every other legal application at least one open face    *)
(* remains.                                                                *)
(***************************************************************************)
C24_EmptiesOnlyInClosingCases ==
  FaceChosen =>
    \A p \in LegalPairs(G) :
       \E h \in {addEdges(G, p[1], p[2])} :
          IF ClosingCase(Len(G.openfaces), p[2])
          THEN h.openfaces = <<>> /\ PredecessorCounted(G, p[1], h)
          ELSE Len(h.openfaces) >= 1

\* four faces are open and move 3 or 6 is legal on one of them: it empties
\* the boundary, closing the selected face, its successor and its predecessor
C24_Witness ==
  /\ FaceChosen
  /\ Len(G.openfaces) = 4
  /\ \E p \in LegalPairs(G) :
       /\ p[2] \in {3, 6}
       /\ addEdges(G, p[1], p[2]).openfaces = <<>>
       /\ PredecessorCounted(G, p[1], addEdges(G, p[1], p[2]))

(***************************************************************************)
(* The open boundary as a cyclic sequence.                                 *)
(***************************************************************************)
\* the sequence s read cyclically from its 0-based position r
RotateSeq(s, r) == [i \in 1..Len(s) |-> s[((i - 1 + r) % Len(s)) + 1]]

IsRotation(s, t) ==
  /\ Len(s) = Len(t)
  /\ s # <<>> => \E r \in 0..(Len(s) - 1) : t = RotateSeq(s, r)

\* g with its open boundary rotated by r: the face at position oF of g
\* sits at position RotatedPos(g, oF, r)
Rotate(g, r) == [g EXCEPT !.openfaces = RotateSeq(@, r)]

RotatedPos(g, oF, r) == (oF + Len(g.openfaces) - r) % Len(g.openfaces)

\* the number of entries of the open boundary move meth consumes (the run
\* of consecutive positions that holds the selected face), the position
\* of the last of them, and the faces the move puts in their place
ConsumedCount(meth) ==
  CASE meth = 1 -> 2
    [] meth \in {3, 4, 6, 7} -> 4
    [] meth \in {8, 9} -> 3
    [] OTHER -> 1

LastConsumed(nb, meth) ==
  CASE meth \in {1, 4, 7} -> nb.noF
    [] meth \in {3, 6} -> nb.nnnoF
    [] meth = 8 -> nb.nnoF
    [] OTHER -> nb.oF

PutInPlace(g, meth) ==
  CASE meth = 5 -> <<Len(g.faces)>>
    [] meth = 10 -> <<Len(g.faces), Len(g.faces) + 1>>
    [] OTHER -> <<>>

\* the open boundary the move p of g must leave, read from the place of the
\* consumed run: the new faces, then the entries that follow the run
Survivors(g, p) ==
  \E nb \in {Nbhd(g, p[1])} :
     \E last \in {LastConsumed(nb, p[2])}, left \in {nb.n - ConsumedCount(p[2])} :
        IsRotation(PutInPlace(g, p[2])
                     \o [j \in 1..left |-> At(g.openfaces, (last + j) % nb.n)],
                   BeforeErase(g, p[1], p[2]).openfaces)

\* move p of g and the same move of the same face in the rotation of g by
\* r: the move is legal there too, and gives the same edges, vertices,
\* faces and counters and a rotation of the same open boundary
SameOnRotation(g, p, h, r) ==
  \E gr \in {Rotate(g, r)}, pos \in {RotatedPos(g, p[1], r)} :
     /\ isValid(gr, pos, p[2])
     /\ \E hr \in {addEdges(gr, pos, p[2])} :
          /\ [hr EXCEPT !.openfaces = <<>>] = [h EXCEPT !.openfaces = <<>>]
          /\ IsRotation(h.openfaces, hr.openfaces)

(***************************************************************************)
(* C25: the executor's result does not depend on where the selected face   *)
(* sits in the open-boundary vector: for every legal move and every index  *)
(* of F, including indices where the consumed neighbours wrap past the end *)
(* of the vector, exactly the consumed entries are erased from the open    *)
(* boundary and the surviving entries keep their cyclic order, so that     *)
(* applying the move to a rotation of the open boundary gives a rotation   *)
(* of the same result.  Stated, on every step the driver takes from a      *)
(* state in which a face has been chosen, of every legal move of every     *)
(* position and of every rotation of the open boundary.                    *)
(***************************************************************************)
C25_ResultUpToRotation ==
  [][FaceChosen =>
       \A p \in LegalPairs(G) :
          /\ Survivors(G, p)
          /\ \E h \in {addEdges(G, p[1], p[2])} :
               \A r \in 1..(Len(G.openfaces) - 1) : SameOnRotation(G, p, h, r)]_vars

\* moves 3 and 4 are legal for faces whose consumed neighbours wrap past
\* the end of the vector, and in a rotation where they do not
C25_Witness ==
  /\ FaceChosen
  /\ \E p \in LegalPairs(G) :
       /\ p[2] = 3 /\ Nbhd(G, p[1]).nnnoF < p[1]
       /\ Survivors(G, p)
       /\ \E r \in 1..(Len(G.openfaces) - 1) :
            /\ RotatedPos(G, p[1], r) = 0
            /\ SameOnRotation(G, p, addEdges(G, p[1], p[2]), r)
  /\ \E p \in LegalPairs(G) :
       /\ p[2] = 4 /\ Nbhd(G, p[1]).ppoF > p[1]
       /\ Survivors(G, p)

(***************************************************************************)
(* Closed faces under a move.                                              *)
(***************************************************************************)
\* the index that face f of g has once the faces te have been removed
Shifted(f, te) == f - Cardinality({i \in DOMAIN te : te[i] < f})

\* the move p of g changes, up to its closing loop (state mid), no face
\* that the open boundary of g does not refer to, removes only faces it
\* refers to, and leaves every closed face of g a closed face with the
\* same edge sequence
KeepsClosedFaces(g, p) ==
  \E mid \in {BeforeErase(g, p[1], p[2])}, te \in {toerase(Nbhd(g, p[1]), p[2])} :
     \E h \in {EraseFaces(mid, te)} :
        /\ \A f \in ClosedFaceSet(g) : At(mid.faces, f) = At(g.faces, f)
        /\ \A i \in DOMAIN te : te[i] \in OpenFaceSet(g)
        /\ \A f \in ClosedFaceSet(g) :
             /\ Shifted(f, te) \in ClosedFaceSet(h)
             /\ At(h.faces, Shifted(f, te)) = At(g.faces, f)

(***************************************************************************)
(* C26: once a face is closed its edge sequence is never changed by any    *)
(* later move: every move modifies only faces that are referenced by the   *)
(* open boundary when it is applied, so that the seed triangle (edges 0,   *)
(* 1, 2) and the seed hexagon stay unchanged for the whole search.         *)
(***************************************************************************)
C26_ClosedFacesKept ==
  /\ At(G.faces, 0) = At(Seed.faces, 0) /\ At(G.faces, 0) = <<0, 1, 2>>
  /\ At(G.faces, 1) = At(Seed.faces, 1)
  /\ {0, 1} \subseteq ClosedFaceSet(G)
  /\ FaceChosen => \A p \in LegalPairs(G) : KeepsClosedFaces(G, p)

\* a legal move removes a face slot below a closed face that earlier moves
\* have closed: the closed face keeps its edges under a lower index
C26_Witness ==
  /\ FaceChosen
  /\ Cardinality(ClosedFaceSet(G)) >= 4
  /\ \E p \in LegalPairs(G) :
       /\ \E f \in ClosedFaceSet(G) : Shifted(f, toerase(Nbhd(G, p[1]), p[2])) < f
       /\ KeepsClosedFaces(G, p)

(***************************************************************************)
(* Edges and vertices under a move.                                        *)
(***************************************************************************)
\* every edge of g is the edge of h with the same index and endpoints, h
\* has at least one edge more and no vertex fewer
OnlyAppends(g, h) ==
  /\ Len(h.edges) > Len(g.edges)
  /\ \A i \in DOMAIN g.edges : h.edges[i] = g.edges[i]
  /\ h.numverts >= g.numverts

\* the step of main that pushes G and applies the chosen move
Applies == pc = "loop" /\ pc' = "applied"

(***************************************************************************)
(* C27: every move only appends to the edge sequence and only increases    *)
(* the vertex count: the index and both endpoints of every existing edge   *)
(* are unchanged by any move, including the moves that remove face slots.  *)
(* Stated of the move the driver applies and of every legal move of the    *)
(* state it is applied in.                                                 *)
(***************************************************************************)
C27_EdgesOnlyAppended ==
  [][/\ Applies => OnlyAppends(G, G')
     /\ FaceChosen =>
          \A p \in LegalPairs(G) : OnlyAppends(G, addEdges(G, p[1], p[2]))]_vars

\* a legal move that adds a vertex and removes a face slot (id 8 or 9)
\* keeps all existing edges
C27_Witness ==
  /\ FaceChosen
  /\ \E p \in LegalPairs(G) :
       /\ Len(toerase(Nbhd(G, p[1]), p[2])) >= 1
       /\ addEdges(G, p[1], p[2]).numverts > G.numverts
       /\ Len(addEdges(G, p[1], p[2]).faces) < Len(G.faces)
       /\ OnlyAppends(G, addEdges(G, p[1], p[2]))

(***************************************************************************)
(* The prune test against the sizes of the faces.                          *)
(***************************************************************************)
\* every face of g has at most 6 edges, every open face at most 5, and the
\* closed faces of length 3, 4 and 5 number at most 1, 2 and 5
WithinSizes(g) ==
  /\ \A f \in 0..(Len(g.faces) - 1) : FaceLen(g, f) <= 6
  /\ \A f \in OpenFaceSet(g) : FaceLen(g, f) <= 5
  /\ ClosedLens(g, 3) <= 1
  /\ ClosedLens(g, 4) <= 2
  /\ ClosedLens(g, 5) <= 5

\* g with face f made k edges longer (its first edge repeated)
Lengthened(g, f, k) ==
  [g EXCEPT !.faces[f + 1] = @ \o [i \in 1..k |-> @[1]]]

\* the lengthenings tried: by one edge and by two
MaxLonger == 2

\* the driver calls sizecheck on G: a move has left two open faces or more
\* and the depth test lets the branch go on
SizecheckCalled ==
  /\ MoveApplied
  /\ Len(G.openfaces) >= 2
  /\ ~Curtail(Len(graphStack), MAX_FACES)

(***************************************************************************)
(* C28: for every state reached by the search, sizecheck returns true      *)
(* exactly when every face has length at most 6, every open face has       *)
(* length at most 5, and the closed faces of length 3, 4 and 5 number at   *)
(* most 1, 2 and 5 respectively.  On the states the search reaches both    *)
(* sides are true; so that the test is also seen to refuse, it is compared *)
(* as well on each state it is called on with one face made one or two     *)
(* edges longer.  Stated of the state before and the state after every     *)
(* step of the driver.                                                     *)
(***************************************************************************)
C28_SizecheckIsWithinSizes ==
  [][/\ sizecheck(G) <=> WithinSizes(G)
     /\ sizecheck(G') <=> WithinSizes(G')
     /\ SizecheckCalled =>
          \A f \in 0..(Len(G.faces) - 1), k \in 1..MaxLonger :
             \E g \in {Lengthened(G, f, k)} : sizecheck(g) <=> WithinSizes(g)]_vars

\* sizecheck is called on a state it accepts, with an open face of 5 edges
\* and both squares closed; with that face, or a hexagon, one edge longer
\* it refuses, and with a short open face longer it still accepts
C28_Witness ==
  /\ SizecheckCalled
  /\ sizecheck(G) /\ WithinSizes(G)
  /\ ClosedLens(G, 4) = 2
  /\ \E f \in OpenFaceSet(G) :
       /\ FaceLen(G, f) = 5
       /\ ~sizecheck(Lengthened(G, f, 1)) /\ ~WithinSizes(Lengthened(G, f, 1))
  /\ \E f \in ClosedFaceSet(G) :
       /\ FaceLen(G, f) = 6
       /\ ~sizecheck(Lengthened(G, f, 1)) /\ ~WithinSizes(Lengthened(G, f, 1))
  /\ \E f \in OpenFaceSet(G) :
       sizecheck(Lengthened(G, f, 1)) /\ WithinSizes(Lengthened(G, f, 1))

(***************************************************************************)
(* The mirror image of a configuration: the open boundary in the reverse   *)
(* cyclic order, everything else (the counters among it) as it is.  The    *)
(* face at position oF of g sits at position MirrorPos(g, oF) of the       *)
(* mirror image, between its successor and its predecessor.                *)
(***************************************************************************)
Mirror(g) ==
  [g EXCEPT !.openfaces = [i \in 1..Len(@) |-> @[Len(@) + 1 - i]]]

MirrorPos(g, oF) == Len(g.openfaces) - 1 - oF

\* the backward-looking move that the move table pairs with move meth
MirrorOf(meth) ==
  CASE meth = 3 -> 4
    [] meth = 6 -> 7
    [] meth = 8 -> 9

(***************************************************************************)
(* C29: legality is mirror-symmetric: for every configuration with at      *)
(* least 6 open faces, moves 4, 7 and 9 are legal for face F exactly when  *)
(* moves 3, 6 and 8 respectively are legal for F in the configuration      *)
(* obtained by reversing the cyclic order of the open boundary             *)
(* (predecessors and successors exchanged), with the same counters.        *)
(***************************************************************************)
C29_LegalityMirrors ==
  (FaceChosen /\ Len(G.openfaces) >= 6) =>
    \E m \in {Mirror(G)} :
       \A oF \in 0..(Len(G.openfaces) - 1), meth \in {3, 6, 8} :
          isValid(G, oF, MirrorOf(meth)) <=> isValid(m, MirrorPos(G, oF), meth)

\* six or more faces are open; for one of them move 4 is legal and move 3
\* is not, for another move 9 is legal and move 8 is not, and in the mirror
\* image it is the other way round
C29_Witness ==
  /\ FaceChosen
  /\ Len(G.openfaces) >= 6
  /\ \E oF \in 0..(Len(G.openfaces) - 1) :
       /\ isValid(G, oF, 4) /\ ~isValid(G, oF, 3)
       /\ isValid(Mirror(G), MirrorPos(G, oF), 3)
       /\ ~isValid(Mirror(G), MirrorPos(G, oF), 4)
  /\ \E oF \in 0..(Len(G.openfaces) - 1) :
       /\ isValid(G, oF, 9) /\ ~isValid(G, oF, 8)
       /\ isValid(Mirror(G), MirrorPos(G, oF), 8)
       /\ ~isValid(Mirror(G), MirrorPos(G, oF), 9)

(***************************************************************************)
(* The pairs the executor is invoked with.                                 *)
(***************************************************************************)
\* the chosen face and the cursor of g hold a move id of 1..NUM_METH that
\* isValid accepts in g
RecordsLegalPair(g) ==
  /\ g.medgadd \in 1..NUM_METH
  /\ g.chosenFace \in 0..(Len(g.openfaces) - 1)
  /\ isValid(g, g.chosenFace, g.medgadd)

(***************************************************************************)
(* C30: the executor is only ever invoked with a (face, move id) pair that *)
(* isValid accepts in the current state, with id in 1..10, and every       *)
(* snapshot on the stack records such a pair in its chosen face and        *)
(* cursor; an illegal or out-of-range move is never applied.  A step       *)
(* that adds edges to G is a step that applies a move; it stacks G with    *)
(* the cursor on the id applied, and G becomes the executor's result for   *)
(* that pair.                                                              *)
(***************************************************************************)
C30_OnlyLegalPairsApplied ==
  [][/\ Len(G'.edges) > Len(G.edges) => Applies
     /\ Applies =>
          /\ Back(graphStack') = [G EXCEPT !.medgadd = G'.medgadd]
          /\ RecordsLegalPair(Back(graphStack'))
          /\ G' = [addEdges(G, G.chosenFace, G'.medgadd) EXCEPT !.medgadd = G'.medgadd]
     /\ \A k \in DOMAIN graphStack' : RecordsLegalPair(graphStack'[k])]_vars

\* the cursor has passed illegal ids: a move other than the first id is
\* applied on a face other than the first, with earlier pairs stacked
C30_Witness ==
  /\ MoveApplied
  /\ Len(graphStack) >= 3
  /\ Back(graphStack).chosenFace > 0
  /\ Back(graphStack).medgadd > 1
  /\ ~isValid(Back(graphStack), Back(graphStack).chosenFace, 1)
  /\ RecordsLegalPair(Back(graphStack))
  /\ G = [addEdges(Back(graphStack), Back(graphStack).chosenFace, Back(graphStack).medgadd)
            EXCEPT !.medgadd = Back(graphStack).medgadd]

(***************************************************************************)
(* C31: whenever legality is evaluated (incMethod or isValid called by the *)
(* driver), the open boundary has at least two entries, the chosen index   *)
(* is within the open boundary, and the chosen open face has length at     *)
(* least 2.  The driver calls incMethod at the top of its loop when pop is *)
(* not set: on the seed, after chooseFace and after a backtrack.           *)
(***************************************************************************)
LegalityEvaluated == pc = "loop" /\ ~pop

C31_EvaluatedOnChosenFace ==
  LegalityEvaluated =>
    /\ Len(G.openfaces) >= 2
    /\ G.chosenFace \in 0..(Len(G.openfaces) - 1)
    /\ OpenLen(G, G.chosenFace) >= 2

\* legality is evaluated again after a backtrack, on a boundary of just two
\* open faces, the chosen one not the first
C31_Witness ==
  /\ LegalityEvaluated
  /\ G.medgadd > 0
  /\ Len(G.openfaces) = 2
  /\ G.chosenFace = 1
  /\ OpenLen(G, G.chosenFace) >= 2

(***************************************************************************)
(* Edges on face boundaries.                                               *)
(***************************************************************************)
\* for each face slot of g, the set of the edge indices on its boundary
EdgeSets(g) ==
  [f \in DOMAIN g.faces |-> {g.faces[f][i] : i \in DOMAIN g.faces[f]}]

\* every edge index of g is in exactly two of the sets es, and every face
\* has as many different edge indices as its sequence has entries
TwoFacesEach(g, es) ==
  /\ \A e \in 0..(Len(g.edges) - 1) : Cardinality({f \in DOMAIN es : e \in es[f]}) = 2
  /\ \A f \in DOMAIN es : Cardinality(es[f]) = Len(g.faces[f])

(***************************************************************************)
(* C32: in every reachable state every edge index occurs in exactly two    *)
(* face boundary sequences, once in each, and never twice in the same      *)
(* face.  Stated of the initial state and of the state after every step.   *)
(***************************************************************************)
C32_EdgeOnTwoFaces ==
  /\ \E es \in {EdgeSets(G)} : TwoFacesEach(G, es)
  /\ [][\E es \in {EdgeSets(G')} : TwoFacesEach(G', es)]_vars

\* move 1 has let the predecessor take over the edges of the successor,
\* whose slot is gone: those edges are still on two faces only
C32_Witness ==
  /\ MoveApplied
  /\ G.medgadd = 1
  /\ Len(G.faces) < Len(Back(graphStack).faces)
  /\ TwoFacesEach(G, EdgeSets(G))

(***************************************************************************)
(* Vertices, edges and face slots of the map under construction.           *)
(***************************************************************************)
\* the vertices at which an open face of g ends and its cyclic successor
\* starts
JunctionVertices(g) == {endpt(g, g.openfaces[o]) : o \in DOMAIN g.openfaces}

\* the number of edge ends at each vertex of g
Degrees(g) ==
  [v \in 1..g.numverts |->
     Cardinality({i \in DOMAIN g.edges : g.edges[i][1] = v})
       + Cardinality({i \in DOMAIN g.edges : g.edges[i][2] = v})]

\* the relations between the n open faces, the vertices, the edges and the
\* face slots of g, deg being the degrees of its vertices
EulerOpen(g, n, deg) ==
  /\ 2 * Len(g.edges) = 3 * g.numverts - n
  /\ g.numverts - Len(g.edges) + Len(g.faces) = IF n > 0 THEN n + 1 ELSE 2
  /\ {v \in DOMAIN deg : deg[v] = 2} = JunctionVertices(g)
  /\ Cardinality(JunctionVertices(g)) = n

(***************************************************************************)
(* C33: in every reachable state with n open faces, V vertices, E edges    *)
(* and F face slots: 2E = 3V - n, and V - E + F = n + 1 when n > 0 (and    *)
(* = 2 when n = 0); the vertices of degree 2 are exactly the n junction    *)
(* vertices shared by cyclically adjacent open faces.  Stated of the       *)
(* initial state and of the state after every step.                        *)
(***************************************************************************)
C33_EulerWithOpenBoundary ==
  /\ \E deg \in {Degrees(G)} : EulerOpen(G, Len(G.openfaces), deg)
  /\ [][\E deg \in {Degrees(G')} : EulerOpen(G', Len(G'.openfaces), deg)]_vars

\* the relations on a map with a single open face (one junction vertex),
\* on which the driver gives up
C33_Witness ==
  /\ MoveApplied
  /\ Len(G.openfaces) = 1
  /\ G.numverts - Len(G.edges) + Len(G.faces) = 2
  /\ EulerOpen(G, 1, Degrees(G))

(***************************************************************************)
(* The completion test on the maps whose open boundary a legal move has    *)
(* emptied.                                                                *)
(***************************************************************************)
\* the legal (position, id) pairs of g whose application empties the open
\* boundary
ClosingPairs(g) ==
  {p \in LegalPairs(g) : addEdges(g, p[1], p[2]).openfaces = <<>>}

\* the completion test of both programs succeeds on g, and g is refused by
\* the test that guards the oracle only for having more than maxfaces faces
Completes(p, g, maxfaces) ==
  /\ sizefinalPlanar(g)
  /\ sizefinalFast(g)
  /\ Acceptable(p, g, maxfaces) <=> ~(Len(g.faces) > maxfaces)

\* planar.cc is about to print "Whoops": the closed-map branch is entered
\* with a map within the bound on which sizefinal fails
Whoops ==
  /\ prog = "planar"
  /\ MoveApplied
  /\ ~SymTest(G)
  /\ G.openfaces = <<>>
  /\ ~(Len(G.faces) > MAX_FACES)
  /\ ~sizefinalPlanar(G)

\* the driver has applied a move that emptied the open boundary
Completed == MoveApplied /\ G.openfaces = <<>>

(***************************************************************************)
(* C34: whenever a sequence of legal moves empties the open boundary, the  *)
(* completion test succeeds (all vertices of degree 3, face lengths in     *)
(* 3..6, exactly 1, 2 and 5 faces of length 3, 4 and 5), so the "Whoops"   *)
(* branch of planar.cc is unreachable and a completed map is rejected only *)
(* for having more than MAX_FACES faces.  Stated of the step the driver    *)
(* takes from a completed map, and of every legal pair, on any open face   *)
(* of a state in which the driver selects a move, that empties the         *)
(* boundary.                                                               *)
(***************************************************************************)
C34_CompletedMapsPass ==
  [][/\ ~Whoops
     /\ Completed =>
          /\ Completes(prog, G, MAX_FACES)
          /\ Submits <=> ~(Len(G.faces) > MAX_FACES)
     /\ FaceChosen =>
          \A p \in ClosingPairs(G) :
            \E h \in {addEdges(G, p[1], p[2])} : Completes(prog, h, MAX_FACES)]_vars

\* planar.cc has completed a map within the bound, which passes sizefinal
C34_Witness ==
  /\ Completed
  /\ prog = "planar"
  /\ ~SymTest(G)
  /\ Len(G.faces) = MAX_FACES
  /\ sizefinalPlanar(G)
  /\ ~Whoops

(***************************************************************************)
(* The depth test and the number of closed faces.                          *)
(***************************************************************************)
\* the number of closed faces of g
NumClosed(g) == Cardinality(ClosedFaceSet(g))

\* the bounds of at least 4 faces, under which the depth test can fire
CurtailingBounds == {b \in LeastBound..(MaxBound + MaxDepth) : b - 4 >= 0}

\* g, reached by depth moves, has at least depth + 2 closed faces; if its
\* open boundary is empty, no bound under which the depth test abandons a
\* state on the way to g, which the driver tests after 1..depth-1 moves, is
\* as large as the number of faces of g
DepthSound(g, depth) ==
  /\ NumClosed(g) >= depth + 2
  /\ g.openfaces = <<>> =>
       \A b \in CurtailingBounds : \A j \in 1..(depth - 1) :
          Curtail(j, b) => Len(g.faces) > b

\* a legal move closes at least one face, and at least two when it empties
\* the open boundary
ClosesFaces(g, h) ==
  /\ NumClosed(h) >= NumClosed(g) + 1
  /\ h.openfaces = <<>> => NumClosed(h) >= NumClosed(g) + 2

(***************************************************************************)
(* C35: the depth prune is sound: in every reachable state the number of   *)
(* closed faces is at least the number of moves applied (the stack size)   *)
(* plus 2, so a state abandoned because the stack size exceeds bound - 4   *)
(* with a non-empty open boundary cannot be extended by legal moves to a   *)
(* completed map with at most bound faces.  Stated of the states before    *)
(* and after every step, of every completed map against every bound that   *)
(* abandons one of the states it was reached through, and of every legal   *)
(* pair on any open face of a state in which the driver selects a move.    *)
(***************************************************************************)
C35_DepthPruneSound ==
  [][/\ DepthSound(G, Len(graphStack))
     /\ DepthSound(G', Len(graphStack'))
     /\ FaceChosen =>
          \A p \in LegalPairs(G) :
            \E h \in {addEdges(G, p[1], p[2])} : ClosesFaces(G, h)]_vars

\* a map completed with three faces more than moves, within the bound of the
\* run: under a bound one less its last ancestor is abandoned by the depth
\* test
C35_Witness ==
  /\ Completed
  /\ Len(G.faces) = Len(graphStack) + 3
  /\ Len(G.faces) <= MAX_FACES
  /\ Curtail(Len(graphStack) - 1, Len(G.faces) - 1)
  /\ DepthSound(G, Len(graphStack))

(***************************************************************************)
(* The graph that canongraph hands to sparsenauty.                         *)
(***************************************************************************)
\* the pairs of vertices joined by the edges of g
JoinedPairs(g) == {{V1(g.edges[i]), V2(g.edges[i])} : i \in DOMAIN g.edges}

\* g is a simple graph on the vertices 1..numverts with at most 3 edges at
\* each vertex, deg being the degrees of its vertices
Simple(g, deg) ==
  /\ \A i \in DOMAIN g.edges : V1(g.edges[i]) # V2(g.edges[i])
  /\ Cardinality(JoinedPairs(g)) = Len(g.edges)
  /\ \A i \in DOMAIN g.edges :
        V1(g.edges[i]) \in 1..g.numverts /\ V2(g.edges[i]) \in 1..g.numverts
  /\ \A v \in DOMAIN deg : deg[v] <= 3

(***************************************************************************)
(* C36: every map handed to the canonical oracle is a simple graph: no     *)
(* edge joins a vertex to itself, no two edges of the edge sequence join   *)
(* the same pair of vertices, and every vertex id is in 1..numverts with   *)
(* at most 3 incident edges (so the 3 adjacency slots per vertex written   *)
(* by canongraph are never exceeded).                                      *)
(***************************************************************************)
C36_SubmittedIsSimple ==
  [][Submits => \E deg \in {Degrees(G)} : Simple(G, deg)]_vars

\* planar-fast.cc has submitted a simple map with a hexagon beside the seed's
C36_Witness ==
  /\ Registered
  /\ prog = "fast"
  /\ ncanon > 0
  /\ G.nhex >= 2
  /\ Simple(G, Degrees(G))

(***************************************************************************)
(* The index of the tally of planar-fast.cc.                               *)
(***************************************************************************)
\* the indices of vector<int> nsuccess(MAX_FACES - 6)
TallyIndices(maxfaces) == 0..(maxfaces - 7)

\* the indices printed by  for (int i = 1; i < MAX_FACES-7; ++i)
PrintedIndices(maxfaces) == {i \in 1..maxfaces : i < maxfaces - 7}

(***************************************************************************)
(* C37: for every accepted graph in planar-fast.cc the hexagon counter     *)
(* satisfies nhex = (number of faces) - 8 and 1 <= nhex <= MAX_FACES - 8,  *)
(* so the tally index nsuccess[nhex] is inside the vector of               *)
(* MAX_FACES - 6 entries and inside the printed range 1..MAX_FACES-8.      *)
(***************************************************************************)
C37_TallyIndexInRange ==
  [][Submits /\ prog = "fast" =>
       /\ G.nhex = Len(G.faces) - 8
       /\ 1 <= G.nhex /\ G.nhex <= MAX_FACES - 8
       /\ G.nhex \in TallyIndices(MAX_FACES)
       /\ DOMAIN nsuccess = TallyIndices(MAX_FACES)
       /\ G.nhex \in PrintedIndices(MAX_FACES)
       /\ PrintedIndices(MAX_FACES) = 1..(MAX_FACES - 8)]_vars

\* planar-fast.cc has counted a map with the most hexagons the bound allows,
\* at the last index it prints
C37_Witness ==
  /\ Registered
  /\ prog = "fast"
  /\ G.nhex = MAX_FACES - 8
  /\ G.nhex >= 2
  /\ nsuccess[G.nhex] >= 1
  /\ G.nhex \in PrintedIndices(MAX_FACES)
  /\ MAX_FACES - 7 \in TallyIndices(MAX_FACES)

(***************************************************************************)
(* The slots faces[2] and faces[3] read by the symmetry test of planar.cc. *)
(***************************************************************************)
\* the edge indices on the boundary of face slot f of g
EdgesOf(g, f) == {At(g.faces, f)[i] : i \in DOMAIN At(g.faces, f)}

\* seed edges 0 and 1 and the triangle are as constructed, slot 2 holds the
\* other face of seed edge 0 and slot 3 the other face of seed edge 1
SeedFacesInPlace(g) ==
  /\ At(g.edges, 0) = At(Seed.edges, 0)
  /\ At(g.edges, 1) = At(Seed.edges, 1)
  /\ At(g.faces, 0) = At(Seed.faces, 0)
  /\ 0 \in EdgesOf(g, 2)
  /\ 1 \in EdgesOf(g, 3)
  /\ {f \in 0..(Len(g.faces) - 1) : 0 \in EdgesOf(g, f)} = {0, 2}
  /\ {f \in 0..(Len(g.faces) - 1) : 1 \in EdgesOf(g, f)} = {0, 3}

\* the face slots the closing loop of addEdges removes when the move with
\* id meth is applied at the chosen face of g
Removed(g, meth) ==
  {toerase(Nbhd(g, g.chosenFace), meth)[i] :
     i \in DOMAIN toerase(Nbhd(g, g.chosenFace), meth)}

(***************************************************************************)
(* C38: in planar.cc, whenever the symmetry prune reads faces[2] and       *)
(* faces[3] after a move, those slots still hold the two seed faces next   *)
(* to the triangle (the faces whose boundaries contain seed edge 0 and     *)
(* seed edge 1 respectively): neither slot is ever removed or renumbered   *)
(* by the batch face removal, and an open-boundary entry equal to 3 always *)
(* refers to the face containing seed edge 1.  Stated of the moves the     *)
(* driver applies and of every legal pair on any open face of a state in   *)
(* which it selects a move.                                                *)
(***************************************************************************)
C38_SeedSlotsKept ==
  [][prog = "planar" =>
       /\ MoveApplied => SeedFacesInPlace(G)
       /\ Applies => \A ef \in Removed(G, G'.medgadd) : ef > 3
       /\ \A o \in DOMAIN G.openfaces : G.openfaces[o] = 3 => 1 \in EdgesOf(G, 3)
       /\ \A o \in DOMAIN G'.openfaces : G'.openfaces[o] = 3 => 1 \in EdgesOf(G', 3)
       /\ FaceChosen =>
            \A p \in LegalPairs(G) :
              /\ \A i \in DOMAIN toerase(Nbhd(G, p[1]), p[2]) :
                    toerase(Nbhd(G, p[1]), p[2])[i] > 3
              /\ SeedFacesInPlace(addEdges(G, p[1], p[2]))]_vars

\* planar.cc has applied a move whose closing loop removed a face slot, and
\* the symmetry test, reading slots 2 and 3 of the result, abandons it
C38_Witness ==
  /\ prog = "planar"
  /\ MoveApplied
  /\ Removed(Back(graphStack), G.medgadd) # {}
  /\ SymTest(G)
  /\ SeedFacesInPlace(G)

====
